---- MODULE Spec2Model ----
(***************************************************************************)
(* EcoForecast AI backend: the usage Quota Ledger (api/usage/incr.js,      *)
(* api/usage/get.js), the billing and history handlers that share its      *)
(* Firestore store, and the /api/forecast handler in the versions the      *)
(* repository holds, with the model service and the abort timer as the     *)
(* environment.                                                            *)
(***************************************************************************)
EXTENDS Integers, Sequences, FiniteSets, TLC

(***************************************************************************)
(* Bounds of the model                                                     *)
(***************************************************************************)
NumUsers == 1
MaxMonth == 2
NumIncSlots == 2
MaxIncr == 12
NumHistSlots == 2
MaxSaves == 2
NumFcSlots == 2
TickMs == 4000
MaxNowMs == 32000
MaxCanonLen == 4
MaxScenarios == 1

Users == 1..NumUsers
Months == 1..MaxMonth
IncSlots == 1..NumIncSlots

(***************************************************************************)
(* Program constants                                                       *)
(***************************************************************************)
DEFAULT_CAP == 10

Min(a, b) == IF a <= b THEN a ELSE b
Max(a, b) == IF a >= b THEN a ELSE b

(***************************************************************************)
(* 32-bit words as <<high 16 bits, low 16 bits>>: the bit operations of    *)
(* djb2 and mulberry32 (TLC's integers are 32-bit signed).                 *)
(***************************************************************************)
W16 == 256 * 256

RECURSIVE Xor16(_, _)
Xor16(x, y) ==
  IF x = 0 THEN y ELSE IF y = 0 THEN x
  ELSE 2 * Xor16(x \div 2, y \div 2) + (((x % 2) + (y % 2)) % 2)

RECURSIVE Or16(_, _)
Or16(x, y) ==
  IF x = 0 THEN y ELSE IF y = 0 THEN x
  ELSE 2 * Or16(x \div 2, y \div 2) + (IF x % 2 = 1 \/ y % 2 = 1 THEN 1 ELSE 0)

RECURSIVE Pow2(_)
Pow2(n) == IF n = 0 THEN 1 ELSE 2 * Pow2(n - 1)

\* a ^ b
XorW(a, b) == <<Xor16(a[1], b[1]), Xor16(a[2], b[2])>>
\* a | k, for a small k
OrLow(a, k) == <<a[1], Or16(a[2], k)>>
\* a >>> n, 0 < n < 16
ShrW(a, n) == <<a[1] \div Pow2(n), (a[2] \div Pow2(n)) + ((a[1] % Pow2(n)) * Pow2(16 - n))>>
\* (a + b) mod 2^32
AddW(a, b) == <<(a[1] + b[1] + ((a[2] + b[2]) \div W16)) % W16, (a[2] + b[2]) % W16>>

\* x * y for 16-bit x, y as <<high, low>>, by 8-bit limbs of x
Mul16(x, y) ==
  LET p == (x \div 256) * y
      q == (x % 256) * y
      r == ((p % 256) * 256) + q
  IN <<(p \div 256) + (r \div W16), r % W16>>

\* Math.imul(a, b): the low 32 bits of the product
Imul(a, b) ==
  LET ll == Mul16(a[2], b[2])
  IN <<(Mul16(a[1], b[2])[2] + Mul16(a[2], b[1])[2] + ll[1]) % W16, ll[2]>>

\* function djb2(str): h = 5381; h = ((h << 5) + h) + charCode; h >>> 0
RECURSIVE Djb2From(_, _, _)
Djb2From(h, str, i) ==
  IF i > Len(str) THEN h
  ELSE LET hn == AddW(Imul(h, <<0, 33>>), <<0, str[i]>>)
       IN IF hn[1] < W16 THEN Djb2From(hn, str, i + 1) ELSE <<0, 0>>

djb2(str) == Djb2From(<<0, 5381>>, str, 1)

\* mulberry32: the closure's state after one more call (a += 0x6D2B79F5)
MulberryNext(a) == AddW(a, <<27947, 31221>>)

\* mulberry32: the 32-bit numerator the call returns over 4294967295,
\* from the state already advanced
MulberryOut(a) ==
  LET t1 == Imul(XorW(a, ShrW(a, 15)), OrLow(a, 1))
      t2 == XorW(t1, AddW(t1, Imul(XorW(t1, ShrW(t1, 7)), OrLow(t1, 61))))
  IN XorW(t2, ShrW(t2, 14))

(***************************************************************************)
(* Exact comparisons with a draw u / 4294967295, u = <<high, low>>         *)
(***************************************************************************)
\* a * u as <<high part, low 16 bits>>, 0 <= a < 32768
ScaleU(a, u) == <<a * u[1] + ((a * u[2]) \div W16), (a * u[2]) % W16>>
\* c * 4294967295 in the same form, 0 < c < 32768
ScaleM(c) == <<c * W16 - 1, W16 - c>>
LexLe(x, y) == x[1] < y[1] \/ (x[1] = y[1] /\ x[2] <= y[2])

\* c * 4294967295 <= a * u
MLeU(c, a, u) == IF c <= 0 THEN TRUE ELSE LexLe(ScaleM(c), ScaleU(a, u))
\* a * u <= c * 4294967295
ULeM(a, u, c) ==
  IF c < 0 THEN FALSE
  ELSE IF c = 0 THEN (a = 0 \/ (u[1] = 0 /\ u[2] = 0))
  ELSE LexLe(ScaleU(a, u), ScaleM(c))


(***************************************************************************)
(* Text: a string is the sequence of its UTF-16 code units; Absent is a    *)
(* field the request body does not have (undefined).                       *)
(***************************************************************************)
Absent == <<-1>>
\* `${a}|${b}`: the pipe character
Pipe == <<124>>
Space == <<32>>
\* "medium"
StrMedium == <<109, 101, 100, 105, 117, 109>>
\* "short"
StrShort == <<115, 104, 111, 114, 116>>
\* "long"
StrLong == <<108, 111, 110, 103>>
\* "Base"
StrBase == <<66, 97, 115, 101>>
\* "severe"
StrSevere == <<115, 101, 118, 101, 114, 101>>
\* "best"
StrBest == <<98, 101, 115, 116>>

IsSpace(c) == c \in {9, 10, 11, 12, 13, 32, 160}
IsWordChar(c) == (c >= 48 /\ c <= 57) \/ (c >= 65 /\ c <= 90) \/ (c >= 97 /\ c <= 122) \/ c = 95

\* String.prototype.toLowerCase / toUpperCase on the ASCII letters
ToLower(str) == [i \in 1..Len(str) |-> IF str[i] >= 65 /\ str[i] <= 90 THEN str[i] + 32 ELSE str[i]]
ToUpper(str) == [i \in 1..Len(str) |-> IF str[i] >= 97 /\ str[i] <= 122 THEN str[i] - 32 ELSE str[i]]

MatchAt(t, pat, i) ==
  /\ i + Len(pat) - 1 <= Len(t)
  /\ \A j \in 1..Len(pat) : t[i + j - 1] = pat[j]

\* t.includes(pat), and a regular expression alternative without anchors
Includes(t, pat) == \E i \in 1..Len(t) : MatchAt(t, pat, i)
\* the alternative \bpat: pat starts where no word character precedes it
IncludesAtBoundary(t, pat) ==
  \E i \in 1..Len(t) : MatchAt(t, pat, i) /\ (i = 1 \/ ~IsWordChar(t[i - 1]))

\* /\bfirst|alt|alt.../.test(t): \b binds to the first alternative only
RuleTest(t, alts) ==
  \/ IncludesAtBoundary(t, alts[1])
  \/ \E k \in 2..Len(alts) : Includes(t, alts[k])

\* A faulty trim: it drops one leading white space character only
TrimLeftMutOne(str) == IF str # <<>> /\ IsSpace(Head(str)) THEN Tail(str) ELSE str
\* String.prototype.trim
RECURSIVE TrimLeft(_)
TrimLeft(str) == IF str # <<>> /\ IsSpace(Head(str)) THEN TrimLeft(Tail(str)) ELSE str
RECURSIVE TrimRight(_)
TrimRight(str) ==
  IF str # <<>> /\ IsSpace(str[Len(str)]) THEN TrimRight(SubSeq(str, 1, Len(str) - 1)) ELSE str
Trim(str) == TrimRight(TrimLeft(str))

\* str.replace(/\s+/g, " ")
RECURSIVE CollapseSpaces(_)
CollapseSpaces(str) ==
  IF str = <<>> THEN <<>>
  ELSE IF IsSpace(Head(str))
    THEN Space \o CollapseSpaces(TrimLeft(str))
    ELSE <<Head(str)>> \o CollapseSpaces(Tail(str))

\* The keyword rules of synthDrivers, each the alternatives of its pattern
\* /\bwar|conflict|invasion|mobilization|sanction|blockade/
RuleGeopolitical ==
  <<<<119, 97, 114>>,
    <<99, 111, 110, 102, 108, 105, 99, 116>>,
    <<105, 110, 118, 97, 115, 105, 111, 110>>,
    <<109, 111, 98, 105, 108, 105, 122, 97, 116, 105, 111, 110>>,
    <<115, 97, 110, 99, 116, 105, 111, 110>>,
    <<98, 108, 111, 99, 107, 97, 100, 101>>>>
\* /\btariff|quota|export ban|embargo/
RuleTrade ==
  <<<<116, 97, 114, 105, 102, 102>>,
    <<113, 117, 111, 116, 97>>,
    <<101, 120, 112, 111, 114, 116, 32, 98, 97, 110>>,
    <<101, 109, 98, 97, 114, 103, 111>>>>
\* /\bsubsidy|credit|rebate|stimulus|grant/
RuleFiscal ==
  <<<<115, 117, 98, 115, 105, 100, 121>>,
    <<99, 114, 101, 100, 105, 116>>,
    <<114, 101, 98, 97, 116, 101>>,
    <<115, 116, 105, 109, 117, 108, 117, 115>>,
    <<103, 114, 97, 110, 116>>>>
\* /\bhurricane|flood|wildfire|heat wave|el niño|la niña/
RuleWeather ==
  <<<<104, 117, 114, 114, 105, 99, 97, 110, 101>>,
    <<102, 108, 111, 111, 100>>,
    <<119, 105, 108, 100, 102, 105, 114, 101>>,
    <<104, 101, 97, 116, 32, 119, 97, 118, 101>>,
    <<101, 108, 32, 110, 105, 241, 111>>,
    <<108, 97, 32, 110, 105, 241, 97>>>>
\* /\bparty|majority|house|senate|white house|regime change|coup/
RulePolitical ==
  <<<<112, 97, 114, 116, 121>>,
    <<109, 97, 106, 111, 114, 105, 116, 121>>,
    <<104, 111, 117, 115, 101>>,
    <<115, 101, 110, 97, 116, 101>>,
    <<119, 104, 105, 116, 101, 32, 104, 111, 117, 115, 101>>,
    <<114, 101, 103, 105, 109, 101, 32, 99, 104, 97, 110, 103, 101>>,
    <<99, 111, 117, 112>>>>
\* /\bfed|rate hike|rate cut|yields|quantitative/
RuleRates ==
  <<<<102, 101, 100>>,
    <<114, 97, 116, 101, 32, 104, 105, 107, 101>>,
    <<114, 97, 116, 101, 32, 99, 117, 116>>,
    <<121, 105, 101, 108, 100, 115>>,
    <<113, 117, 97, 110, 116, 105, 116, 97, 116, 105, 118, 101>>>>

(***************************************************************************)
(* The deterministic synthesizer (the demo forecast) of api/forecast.ts    *)
(* and of the model-free path of api/forecast.js                           *)
(***************************************************************************)
\* A number of a response body: demand_pct and cost_pct in tenths, margin_bps and
\* horizon_months in units; NoNum is a field the body does not carry.
Num(v) == [t |-> "num", v |-> v]
NoNum == [t |-> "none", v |-> 0]
\* confidence: the draw u it was computed from, 0.425 + u / (4 * 4294967295),
\* or a literal in thousandths
ConfDraw(u) == [t |-> "draw", v |-> 0, u |-> u]
ConfMilli(v) == [t |-> "milli", v |-> v, u |-> <<0, 0>>]
NoConf == [t |-> "none", v |-> 0, u |-> <<0, 0>>]

\* const { horizon = 'medium', scenario = 'Base', extra_factors = '' } = req.body
Dflt(v, d) == IF v = Absent THEN d ELSE v
\* (x || d) on strings
OrElse(v, d) == IF v = Absent \/ v = <<>> THEN d ELSE v

\* A faulty seed string: the arrival time enters it
SeedStringMutClock(req, started) ==
  req.event \o Pipe \o req.geo \o Pipe \o req.naics \o Pipe \o Dflt(req.horizon, StrMedium)
    \o Pipe \o Dflt(req.scenario, StrBase) \o Pipe \o Dflt(req.extra, <<>>)
    \o Pipe \o <<48 + ((started \div 1000) % 10)>>
\* `${event}|${geo}|${naics}|${horizon}|${scenario}|${extra_factors}`: the
\* string the seed is hashed from; the arrival time has no part in it
SeedString(req, started) ==
  req.event \o Pipe \o req.geo \o Pipe \o req.naics \o Pipe \o Dflt(req.horizon, StrMedium)
    \o Pipe \o Dflt(req.scenario, StrBase) \o Pipe \o Dflt(req.extra, <<>>)

\* scenMult, times 10
ScenMult10(req) ==
  LET scen == ToLower(OrElse(Dflt(req.scenario, StrBase), StrBase))
  IN IF Includes(scen, StrSevere) THEN 18 ELSE IF Includes(scen, StrBest) THEN 6 ELSE 10

\* round1(((rand() - 0.55) * 8) * scenMult), in tenths, m = scenMult * 10
DemandPct10(u, m) ==
  CHOOSE k \in -80..66 :
    MLeU(10 * k + 44 * m - 5, 80 * m, u) /\ ~MLeU(10 * (k + 1) + 44 * m - 5, 80 * m, u)

\* round1(((rand() - 0.45) * 5) * scenMult), in tenths
CostPct10(u, m) ==
  CHOOSE k \in -41..51 :
    MLeU(20 * k + 45 * m - 10, 100 * m, u) /\ ~MLeU(20 * (k + 1) + 45 * m - 10, 100 * m, u)

\* Math.round((-(demand_pct * 8) + (cost_pct * 12)) * (0.6 + rand() * 0.5))
\* k <= (s / 10) * (0.6 + u / (2 * 4294967295)) + 0.5, s = 12 * cost10 - 8 * demand10
MarginAtMost(j, sv, w) ==
  IF sv >= 0 THEN MLeU(200 * j - 12 * sv - 100, 10 * sv, w)
  ELSE ULeM(-10 * sv, w, 12 * sv + 100 - 200 * j)

MarginBps(d10, c10, u) ==
  LET sv == 12 * c10 - 8 * d10
  IN CHOOSE k \in -140..140 : MarginAtMost(k, sv, u) /\ ~MarginAtMost(k + 1, sv, u)

\* Math.floor(r() * n) for the pool (n = 5) and the tones (n = 3)
FloorTimes(u, n) == CHOOSE k \in 0..n : MLeU(k, n, u) /\ ~MLeU(k + 1, n, u)

Pool ==
  <<"Energy futures volatility spilling into transport costs",
    "Labor market tightness pressuring wages",
    "FX moves altering import prices",
    "Commodity basis widening for key inputs",
    "Port congestion risk elevating lead times">>
Tones == <<"good", "bad", "warn">>
\* pool[i] and tones[i]: undefined past the end of the array
PoolAt(i) == IF i < Len(Pool) THEN Pool[i + 1] ELSE "undefined"
ToneAt(i) == IF i < Len(Tones) THEN Tones[i + 1] ELSE "undefined"

Driver(text, tone) == [text |-> text, tone |-> tone]

\* The six keyword rules, in order, every matching rule included
RuleDrivers(t) ==
     (IF RuleTest(t, RuleGeopolitical)
        THEN <<Driver("Geopolitical risk elevating supply chain fragility", "bad")>> ELSE <<>>)
  \o (IF RuleTest(t, RuleTrade)
        THEN <<Driver("Trade barriers raising input costs", "bad")>> ELSE <<>>)
  \o (IF RuleTest(t, RuleFiscal)
        THEN <<Driver("Fiscal support boosting demand in targeted sectors", "good")>> ELSE <<>>)
  \o (IF RuleTest(t, RuleWeather)
        THEN <<Driver("Weather disruption affecting logistics and insurance premiums", "warn")>>
        ELSE <<>>)
  \o (IF RuleTest(t, RulePolitical)
        THEN <<Driver("Political control shift altering policy trajectory", "warn")>> ELSE <<>>)
  \o (IF RuleTest(t, RuleRates)
        THEN <<Driver("Interest-rate path impacting capital costs and demand", "warn")>>
        ELSE <<>>)

\* A faulty loop condition: the list is padded to two drivers only
PadMoreMutTwo(ds) == Len(ds) < 2
\* while (drivers.length < 3)
PadMore(ds) == Len(ds) < 3

\* One turn of the loop: two calls of r(), one driver pushed; a is the
\* generator's state, draws the numerators the two calls returned
PadOnce(ds, a) ==
  LET a1 == MulberryNext(a)
      a2 == MulberryNext(a1)
  IN [drivers |-> Append(ds, Driver(PoolAt(FloorTimes(MulberryOut(a1), 5)),
                                    ToneAt(FloorTimes(MulberryOut(a2), 3)))),
      a |-> a2, draws |-> <<MulberryOut(a1), MulberryOut(a2)>>]

\* The loop to its end; the generator's state is returned with the list
RECURSIVE PadDrivers(_, _)
PadDrivers(ds, a) ==
  IF PadMore(ds)
    THEN CHOOSE r \in {PadDrivers(p.drivers, p.a) : p \in {PadOnce(ds, a)}} : TRUE
    ELSE [drivers |-> ds, a |-> a]

\* synthDrivers(text, r)
synthDrivers(text, a) ==
  LET p == PadDrivers(RuleDrivers(ToLower(OrElse(text, <<>>))), a)
  IN [drivers |-> SubSeq(p.drivers, 1, Min(6, Len(p.drivers))), a |-> p.a]

\* The numbers and drivers of the demo forecast from the generator's seed, the
\* draws in the code's order
SynthFrom(seed, req) ==
  LET m == ScenMult10(req)
      a1 == MulberryNext(seed)
      a2 == MulberryNext(a1)
      a3 == MulberryNext(a2)
      d10 == DemandPct10(MulberryOut(a1), m)
      c10 == CostPct10(MulberryOut(a2), m)
      sd == synthDrivers(req.event \o Space \o Dflt(req.extra, <<>>), a3)
      a4 == MulberryNext(sd.a)
  IN [demand |-> Num(d10), cost |-> Num(c10),
      margin |-> Num(MarginBps(d10, c10, MulberryOut(a3))),
      drivers |-> sd.drivers,
      confidence |-> ConfDraw(MulberryOut(a4))]

VARIABLES
  clock,      \* the calendar month new Date() falls in
  usage,      \* users/{uid}/usage/{ym}: the usage counter documents
  inc,        \* the increment requests in flight, one per slot
  issued,     \* per counter: increment requests that entered the transaction
  admitted,   \* per counter: how many times each count value was returned with 200
  rejected,   \* per counter: requests answered 402
  billing,    \* users/{uid}/billing/current: the plan documents
  forecasts,  \* users/{uid}/forecasts: documents per month of their ts
  history,    \* the history collection: documents per uid
  hist,       \* the history requests in flight, one per slot
  scenarios,  \* users/{uid}/scenarios: documents per uid
  now,        \* Date.now() in milliseconds
  fc,         \* the forecast requests, one per slot
  sdc,         \* a call of synthDrivers(text, r): its locals and the draws of r
  cz,         \* a value passed through a canonicalizer, and through it again
  adminUid    \* process.env.ADMIN_UID is set (to a non-empty uid)

ledgerVars == <<clock, usage, inc, issued, admitted, rejected>>
storeVars == <<billing, forecasts, history, hist, scenarios>>
fcVars == <<now, fc>>
helperVars == <<sdc, cz>>
envVars == <<adminUid>>
vars == <<clock, usage, inc, issued, admitted, rejected, billing, forecasts, history, hist,
          scenarios, now, fc, sdc, cz, adminUid>>

Keys == Users \X Months

\* A counter document; exists = FALSE is a document absent from storage.
NoDoc == [exists |-> FALSE, count |-> 0, cap |-> 0, updatedAt |-> 0]

\* A faulty default: an absent counter counts as one forecast used
PrevCountMutOne(doc) == IF doc.exists THEN doc.count ELSE 1
\* prev = snap.exists ? snap.data() : {}
PrevCount(doc) == IF doc.exists THEN doc.count ELSE 0
\* A faulty cap: every increment raises the cap it finds
PrevCapMutRaise(doc) == IF doc.exists /\ doc.cap # 0 THEN doc.cap + 1 ELSE DEFAULT_CAP
\* Number(prev.cap || DEFAULT_CAP)
PrevCap(doc) == IF doc.exists /\ doc.cap # 0 THEN doc.cap ELSE DEFAULT_CAP
\* Number(prev.count || 0) + 1
NextCount(doc) == PrevCount(doc) + 1

\* A faulty cap check, off by one
QuotaMutLoose(doc) == NextCount(doc) > PrevCap(doc) + 1
\* if (next > cap) throw {code: 402, cap, count}
QuotaExceeded(doc) == NextCount(doc) > PrevCap(doc)

IdleInc == [pc |-> "idle", uid |-> 0, ym |-> 0, snap |-> NoDoc,
            status |-> 0, count |-> 0, cap |-> 0]

\* A faulty catch block: an error other than the cap is swallowed and the
\* initial out = {count: 0, cap: DEFAULT_CAP} is answered as a success
CatchMutSwallow(code) == IF code = 402 THEN 402 ELSE 200
\* A faulty catch block: every error is answered 500
CatchMutAll500(code) == 500
\* The catch block of api/usage/incr.js: the status an error is answered with.
CatchStatus(code) == IF code = 402 THEN 402 ELSE 500

Methods == {"POST", "GET"}
\* A bearer token: 0 = no Authorization header, -1 = a token verifyIdToken
\* rejects, u \in Users = a valid token of user u.
Tokens == Users \cup {0, -1}

(***************************************************************************)
(* api/usage/incr.js                                                       *)
(***************************************************************************)
RECURSIVE SumOver(_, _)
SumOver(f, S) ==
  IF S = {} THEN 0 ELSE LET k == CHOOSE x \in S : TRUE IN f[k] + SumOver(f, S \ {k})

\* Increment requests that entered the transaction so far, over all counters.
TotalIssued == SumOver(issued, Keys)

IncKey(s) == <<inc[s].uid, inc[s].ym>>

\* The request arrives: method check, bearer token, verifyIdToken, ymKey().
IncStart(s, m, t) ==
  /\ inc[s].pc \in {"idle", "done"}
  /\ TotalIssued < MaxIncr
  /\ IF m # "POST"
        THEN /\ inc' = [inc EXCEPT ![s] = [IdleInc EXCEPT !.pc = "done", !.status = 405]]
             /\ UNCHANGED issued
        ELSE IF t = 0
        THEN /\ inc' = [inc EXCEPT ![s] = [IdleInc EXCEPT !.pc = "done", !.status = 401]]
             /\ UNCHANGED issued
        ELSE IF t = -1
        THEN /\ inc' = [inc EXCEPT ![s] =
                         [IdleInc EXCEPT !.pc = "done", !.status = CatchStatus(0)]]
             /\ UNCHANGED issued
        ELSE /\ inc' = [inc EXCEPT ![s] = [IdleInc EXCEPT !.pc = "tx", !.uid = t, !.ym = clock]]
             /\ issued' = [issued EXCEPT ![<<t, clock>>] = @ + 1]
  /\ UNCHANGED <<clock, usage, admitted, rejected, storeVars, fcVars, helperVars, envVars>>

\* A faulty update function: it stamps updatedAt before the cap check, in a
\* write of its own that a rejection does not undo
IncTxGetMutTouch(s) ==
  /\ inc[s].pc = "tx"
  /\ LET doc == usage[IncKey(s)] IN
     IF QuotaExceeded(doc)
       THEN /\ inc' = [inc EXCEPT ![s] = [@ EXCEPT !.pc = "done", !.snap = doc, !.status = 402,
                          !.count = PrevCount(doc), !.cap = PrevCap(doc)]]
            /\ rejected' = [rejected EXCEPT ![IncKey(s)] = @ + 1]
            /\ usage' = [usage EXCEPT ![IncKey(s)].updatedAt = @ + 1]
       ELSE /\ inc' = [inc EXCEPT ![s] = [@ EXCEPT !.pc = "commit", !.snap = doc]]
            /\ UNCHANGED <<rejected, usage>>
  /\ UNCHANGED <<clock, issued, admitted, storeVars, fcVars, helperVars, envVars>>

\* The transaction's update function: tx.get(ref), the cap check, tx.set.
IncTxGet(s) ==
  /\ inc[s].pc = "tx"
  /\ LET doc == usage[IncKey(s)] IN
     IF QuotaExceeded(doc)
       THEN LET st == CatchStatus(402) IN
            /\ inc' = [inc EXCEPT ![s] = [@ EXCEPT !.pc = "done", !.snap = doc, !.status = st,
                          !.count = IF st = 402 THEN PrevCount(doc) ELSE 0,
                          !.cap = IF st = 402 THEN PrevCap(doc) ELSE 0]]
            /\ rejected' = [rejected EXCEPT ![IncKey(s)] = IF st = 402 THEN @ + 1 ELSE @]
       ELSE /\ inc' = [inc EXCEPT ![s] = [@ EXCEPT !.pc = "commit", !.snap = doc]]
            /\ UNCHANGED rejected
  /\ UNCHANGED <<clock, usage, issued, admitted, storeVars, fcVars, helperVars, envVars>>

\* A faulty commit: a read followed by a write outside any transaction
CommitMutBlind(s) == TRUE
\* The commit of the transaction: it is applied only if the document is as the
\* transaction read it; otherwise runTransaction runs the update function again.
CommitValid(s) == usage[IncKey(s)] = inc[s].snap

IncTxCommit(s) ==
  /\ inc[s].pc = "commit"
  /\ IF CommitValid(s)
       THEN LET next == NextCount(inc[s].snap)
                cap == PrevCap(inc[s].snap) IN
            /\ usage' = [usage EXCEPT ![IncKey(s)] =
                           [exists |-> TRUE, count |-> next, cap |-> cap,
                            updatedAt |-> usage[IncKey(s)].updatedAt + 1]]
            /\ inc' = [inc EXCEPT ![s] = [@ EXCEPT !.pc = "done", !.status = 200,
                                                   !.count = next, !.cap = cap]]
            /\ admitted' = [admitted EXCEPT ![IncKey(s)] =
                              [v \in DOMAIN @ \cup {next} |-> IF v = next
                                 THEN (IF next \in DOMAIN @ THEN @[next] ELSE 0) + 1
                                 ELSE @[v]]]
       ELSE /\ inc' = [inc EXCEPT ![s] = [@ EXCEPT !.pc = "tx"]]
            /\ UNCHANGED <<usage, admitted>>
  /\ UNCHANGED <<clock, issued, rejected, storeVars, fcVars, helperVars, envVars>>

\* runTransaction rejects with an error of the store (gRPC codes 10 ABORTED
\* once the retry budget is spent, 14 UNAVAILABLE): nothing is written, the
\* handler's catch block answers.
StoreErrorCodes == {10, 14}
IncTxFail(s) ==
  /\ inc[s].pc \in {"tx", "commit"}
  /\ \E code \in StoreErrorCodes :
       inc' = [inc EXCEPT ![s] = [@ EXCEPT !.pc = "done", !.status = CatchStatus(code),
                                            !.count = 0, !.cap = 0]]
  /\ UNCHANGED <<clock, usage, issued, admitted, rejected, storeVars, fcVars, helperVars, envVars>>

\* The calendar month rolls over.
Tick ==
  /\ clock < MaxMonth
  /\ clock' = clock + 1
  /\ UNCHANGED <<usage, inc, issued, admitted, rejected, storeVars, fcVars, helperVars, envVars>>

(***************************************************************************)
(* api/usage/get.js                                                        *)
(***************************************************************************)
\* The response of a handler that reads the store and answers in one step:
\* the status and the fields of the body the handler fills
Reply(status, count, cap, plan) ==
  [status |-> status, count |-> count, cap |-> cap, plan |-> plan]
Refusal(status) == Reply(status, 0, 0, "")

\* A faulty read: it creates the counter it does not find
UsageGetMutCreate(m, t) ==
  /\ t \in Users
  /\ usage' = [usage EXCEPT ![<<t, clock>>] =
                 IF @.exists THEN @
                 ELSE [exists |-> TRUE, count |-> 0, cap |-> DEFAULT_CAP, updatedAt |-> 0]]
  /\ UNCHANGED <<clock, inc, issued, admitted, rejected, storeVars, fcVars, helperVars, envVars>>

\* What api/usage/get.js answers in the current state
UsageGetReply(m, t) ==
  IF m # "GET" THEN Refusal(405)
  ELSE IF t = 0 THEN Refusal(401)
  ELSE IF t = -1 THEN Refusal(500)
  ELSE LET doc == usage[<<t, clock>>] IN Reply(200, PrevCount(doc), PrevCap(doc), "")

\* The handler answers and writes nothing.
UsageGet(m, t) ==
  /\ UsageGetReply(m, t).status \in {200, 401, 405, 500}
  /\ UNCHANGED vars

(***************************************************************************)
(* api/plan.js, api/plan/set.js, api/plan/get.js                           *)
(***************************************************************************)
Plans == {"business", "pro", "enterprise"}
NoBilling == [exists |-> FALSE, plan |-> "", cap |-> 0]
\* The x-admin-uid header: absent, the configured admin's uid, another value
AdminHeaders == {"none", "admin", "other"}
PlanApis == {"plan_js", "set_js"}

\* api/plan.js: if (!adminUid || adminHeader !== adminUid) -> 403
\* api/plan/set.js: if (req.headers["x-admin-uid"] !== adminUid) -> 403
AdminOk(api, adminEnv, hdr) ==
  IF api = "plan_js" THEN adminEnv /\ hdr = "admin"
  ELSE (adminEnv /\ hdr = "admin") \/ (~adminEnv /\ hdr = "none")

\* const cap = plan === 'business' ? 10 : (plan === 'pro' ? 999999 : 999999)
PlanCap(plan) == IF plan = "business" THEN 10 ELSE 999999

\* The document the set handler leaves: api/plan.js merges {plan, features,
\* cap, updatedAt}, api/plan/set.js overwrites with {plan, updated, features}.
PlanDoc(api, plan) ==
  [exists |-> TRUE, plan |-> plan, cap |-> IF api = "plan_js" THEN PlanCap(plan) ELSE 0]

PlanSetStatus(api, m, adminEnv, hdr, uid, plan) ==
  IF api = "plan_js"
    THEN IF m # "POST" THEN 404
         ELSE IF ~AdminOk(api, adminEnv, hdr) THEN 403
         ELSE IF uid = 0 \/ plan = "" THEN 400 ELSE 200
    ELSE IF uid = 0 \/ plan = "" THEN 400
         ELSE IF ~AdminOk(api, adminEnv, hdr) THEN 403 ELSE 200

\* action=set of api/plan.js and api/plan/set.js; adminEnv: ADMIN_UID is set
PlanSet(api, m, adminEnv, hdr, uid, plan) ==
  LET st == PlanSetStatus(api, m, adminEnv, hdr, uid, plan) IN
  /\ billing' = IF st = 200 THEN [billing EXCEPT ![uid] = PlanDoc(api, plan)] ELSE billing
  /\ UNCHANGED <<ledgerVars, forecasts, history, hist, scenarios, fcVars, helperVars, envVars>>

\* action=get of api/plan.js (bearer token) and api/plan/get.js (uid in the
\* query, 0 = missing); PLAN_DEFAULT is not set in the environment.
PlanGetReply(api, m, t) ==
  IF api = "plan_js"
    THEN IF m # "GET" THEN Refusal(404)
         ELSE IF t \notin Users THEN Refusal(401)
         ELSE IF ~billing[t].exists THEN Reply(200, 0, 10, "business")
         ELSE Reply(200, 0, billing[t].cap, billing[t].plan)
    ELSE IF t \notin Users THEN Refusal(400)
         ELSE IF ~billing[t].exists THEN Reply(200, 0, 0, "undefined")
         ELSE Reply(200, 0, billing[t].cap, billing[t].plan)

\* The handler answers and writes nothing.
PlanGet(api, m, t) ==
  /\ PlanGetReply(api, m, t).status \in {200, 400, 401, 404}
  /\ UNCHANGED vars

(***************************************************************************)
(* api/history/save.ts, api/history/list.ts, api/history.js                *)
(***************************************************************************)
\* usedThisMonth.size >= 10
HIST_QUOTA == 10
HistSlots == 1..NumHistSlots
\* A history request; n counts the requests of the slot that reached the store
IdleHist == [pc |-> "idle", uid |-> 0, ym |-> 0, status |-> 0, n |-> 0]
\* "save_ts" is api/history/save.ts with the monthly quota, "save_nq" the
\* version of it without a quota, "hist_js" action=save of api/history.js
HistApis == {"save_ts", "save_nq", "hist_js"}

\* History requests that reached the store so far, over all slots.
TotalSaves == SumOver([x \in HistSlots |-> hist[x].n], HistSlots)

\* docs of the user with ts >= monthStart
UsedSince(uid, ym) == SumOver(forecasts, {k \in Keys : k[1] = uid /\ k[2] >= ym})

\* The request arrives: the checks up to the first read or write of the store.
\* json: the Content-Type is application/json; body: payload and result are there
HistStart(s, api, m, t, json, body) ==
  /\ hist[s].pc \in {"idle", "done"}
  /\ TotalSaves < MaxSaves
  /\ LET answer(st) == [IdleHist EXCEPT !.pc = "done", !.status = st, !.n = hist[s].n]
         go(pc) == [IdleHist EXCEPT !.pc = pc, !.uid = t, !.ym = clock, !.n = hist[s].n + 1] IN
     hist' = [hist EXCEPT ![s] =
       IF api = "save_ts"
         THEN IF m # "POST" THEN answer(405)
              ELSE IF t = 0 THEN answer(401)
              ELSE IF t = -1 THEN answer(500)
              ELSE IF ~body THEN answer(400) ELSE go("query")
       ELSE IF api = "save_nq"
         THEN IF m # "POST" THEN answer(405)
              ELSE IF ~json THEN answer(400)
              ELSE IF t \notin Users THEN answer(500)
              ELSE IF ~body THEN answer(400) ELSE go("add")
       ELSE IF t \notin Users THEN answer(401)
              ELSE IF m # "POST" THEN answer(404) ELSE go("addh")]
  /\ UNCHANGED <<ledgerVars, billing, forecasts, history, scenarios, fcVars, helperVars, envVars>>

\* api/history/save.ts: the query of this month's documents and the quota check
HistQuery(s) ==
  /\ hist[s].pc = "query"
  /\ hist' = [hist EXCEPT ![s] =
       IF UsedSince(hist[s].uid, hist[s].ym) >= HIST_QUOTA
         THEN [@ EXCEPT !.pc = "done", !.status = 402]
         ELSE [@ EXCEPT !.pc = "add"]]
  /\ UNCHANGED <<ledgerVars, billing, forecasts, history, scenarios, fcVars, helperVars, envVars>>

\* collection("forecasts").add(doc) with ts = Timestamp.now()
HistAdd(s) ==
  /\ hist[s].pc = "add"
  /\ forecasts' = [forecasts EXCEPT ![<<hist[s].uid, clock>>] = @ + 1]
  /\ hist' = [hist EXCEPT ![s] = [@ EXCEPT !.pc = "done", !.status = 200]]
  /\ UNCHANGED <<ledgerVars, billing, history, scenarios, fcVars, helperVars, envVars>>

\* api/history.js: collection('history').doc().set({uid, ...})
HistAddJs(s) ==
  /\ hist[s].pc = "addh"
  /\ history' = [history EXCEPT ![hist[s].uid] = @ + 1]
  /\ hist' = [hist EXCEPT ![s] = [@ EXCEPT !.pc = "done", !.status = 200]]
  /\ UNCHANGED <<ledgerVars, billing, forecasts, scenarios, fcVars, helperVars, envVars>>

\* api/history/list.ts: the user's documents, newest first, limit(50)
HistListReply(m, t) ==
  IF m # "GET" THEN Refusal(405)
  ELSE IF t = 0 THEN Refusal(401)
  ELSE IF t = -1 THEN Refusal(500)
  ELSE Reply(200, Min(50, UsedSince(t, 1)), 0, "")

\* The handler answers and writes nothing.
HistList(m, t) ==
  /\ HistListReply(m, t).status \in {200, 401, 405, 500}
  /\ UNCHANGED vars

(***************************************************************************)
(* api/scenario.js, api/scenario/save.js, api/scenario/get.js and the list *)
(***************************************************************************)
\* "scenario_js" is api/scenario.js with its three actions; "save_js",
\* "get_js" and "list_js" are the handlers with one file each
ScenarioApis == {"scenario_js", "save_js", "get_js", "list_js"}
ScenarioActions == {"save", "list", "get", "other"}

\* planData.features?.pro of the user's billing document
FeaturesPro(doc) == doc.exists /\ doc.plan \in {"pro", "enterprise"}

\* The status a scenario request is answered with.  given: the body has name
\* and inputs (save), the query has an id (get).  The one-file handlers name
\* admin without importing it: past the token test, admin.auth() throws a
\* ReferenceError outside every try block and the request fails (500).
ScenarioStatus(api, action, m, t, given) ==
  IF api # "scenario_js" THEN (IF t = 0 THEN 401 ELSE 500)
  ELSE IF t \notin Users THEN 401
  ELSE IF ~FeaturesPro(billing[t]) THEN 403
  ELSE IF action = "save" /\ m = "POST" THEN (IF given THEN 200 ELSE 400)
  ELSE IF action = "list" /\ m = "GET" THEN 200
  ELSE IF action = "get" /\ m = "GET"
    THEN (IF ~given THEN 400 ELSE IF scenarios[t] = 0 THEN 404 ELSE 200)
  ELSE 404

\* A scenario request: action=save of api/scenario.js adds a document,
\* everything else reads.
Scenario(api, action, m, t, given) ==
  LET saves == api = "scenario_js" /\ action = "save"
                 /\ ScenarioStatus(api, action, m, t, given) = 200 IN
  /\ saves => scenarios[t] < MaxScenarios
  /\ scenarios' = IF saves THEN [scenarios EXCEPT ![t] = @ + 1] ELSE scenarios
  /\ UNCHANGED <<ledgerVars, billing, forecasts, history, hist, fcVars, helperVars, envVars>>

(***************************************************************************)
(* /api/forecast: the request bodies and the model service's answers       *)
(***************************************************************************)
\* "10% steel tariff"
StrTariff == <<49, 48, 37, 32, 115, 116, 101, 101, 108, 32, 116, 97, 114, 105, 102, 102>>
\* " Phoenix,  AZ "
StrPhoenix == <<32, 80, 104, 111, 101, 110, 105, 120, 44, 32, 32, 65, 90, 32>>
\* "3313 al"
Str3313 == <<51, 51, 49, 51, 32, 97, 108>>
\* "x"
StrX == <<120>>
\* "y"
StrY == <<121>>
\* "z"
StrZ == <<122>>
\* "  "
StrBlank == <<32, 32>>
\* "War"
StrWar == <<87, 97, 114>>
\* "NY"
StrNY == <<78, 89>>
\* "72"
Str72 == <<55, 50>>
\* "Best Case"
StrBestCase == <<66, 101, 115, 116, 32, 67, 97, 115, 101>>
\* "flood"
StrFlood == <<102, 108, 111, 111, 100>>
\* "weekly"
StrWeekly == <<119, 101, 101, 107, 108, 121>>
\* "Severe"
StrSevereCap == <<83, 101, 118, 101, 114, 101>>

\* req.body: a field is Absent when the body does not have it; plan is a
\* plan name or "none" when the body has no plan
MkBody(event, geo, naics, horizon, scenario, extra, plan) ==
  [event |-> event, geo |-> geo, naics |-> naics, horizon |-> horizon,
   scenario |-> scenario, extra |-> extra, plan |-> plan]

Bodies ==
  { MkBody(StrTariff, StrPhoenix, Str3313, StrMedium, StrBase, <<>>, "pro"),
    MkBody(StrX, StrY, StrZ, Absent, Absent, Absent, "none"),
    MkBody(StrX, StrY, StrZ, StrLong, StrSevereCap, Absent, "enterprise"),
    MkBody(StrWar, StrNY, Str72, StrShort, StrBestCase, StrFlood, "gold"),
    MkBody(StrBlank, StrY, StrZ, StrWeekly, <<>>, <<>>, "business"),
    MkBody(Absent, StrY, StrZ, Absent, Absent, Absent, "none"),
    MkBody(StrX, <<>>, StrZ, Absent, Absent, Absent, "none") }

\* Pairs of request bodies that differ in scenario only: "Base" and "Severe"
ScenarioBodies ==
  { MkBody(StrTariff, StrPhoenix, Str3313, StrMedium, sc, <<>>, "pro") :
      sc \in {StrBase, StrSevereCap} }
  \cup { MkBody(StrX, StrY, StrZ, StrLong, sc, Absent, "enterprise") :
      sc \in {StrBase, StrSevereCap} }

\* The versions of the handler the repository holds
Variants == {"demo_ts", "llm_js", "llm_ts", "rich", "v30", "v31"}

\* A driver list of the model's answer, longer than every handler keeps
ModelDrivers ==
  <<Driver("m1", "good"), Driver("m2", "bad"), Driver("m3", "warn"), Driver("m4", "loud"),
    Driver("m5", "good"), Driver("m6", "bad"), Driver("m7", "warn"), Driver("m8", "good"),
    Driver("m9", "bad")>>

\* The object the model's text parses to: numbers in tenths (demand, cost),
\* margin in tenths of a basis point, confidence in thousandths; NoNum is a
\* missing or non-numeric field, hasDrivers = FALSE a missing drivers array,
\* words the number of words of narrative.full (0 without a narrative)
Payloads ==
  { [demand |-> Num(12), cost |-> Num(-5), margin |-> Num(304), hasDrivers |-> TRUE,
     drivers |-> ModelDrivers, confidence |-> ConfMilli(1500), words |-> 2600],
    [demand |-> NoNum, cost |-> NoNum, margin |-> NoNum, hasDrivers |-> FALSE,
     drivers |-> <<>>, confidence |-> NoConf, words |-> 0] }
NoPayload == [demand |-> NoNum, cost |-> NoNum, margin |-> NoNum, hasDrivers |-> FALSE,
              drivers |-> <<>>, confidence |-> NoConf, words |-> 0]

\* What the service sends after a 2xx status line.  kind:
\*   badenvelope  the body is not JSON or the connection breaks: resp.json() rejects
\*   nocontent    choices[0].message.content is missing or ""
\*   nonstring    content is an object, not a string
\*   text         content is prose without braces
\*   badbraces    content is prose with {...} that is not JSON
\*   prose        content is prose around a JSON object
\*   fenced       content is a JSON object in a ```json fence
\*   json         content is a JSON object
\*   json_null    content is the JSON text null
\*   json_scalar  content is the JSON text of a number
Contents ==
  { [kind |-> k, payload |-> NoPayload] :
      k \in {"badenvelope", "nocontent", "nonstring", "text", "badbraces", "json_null",
             "json_scalar"} }
  \cup { [kind |-> k, payload |-> p] : k \in {"prose", "fenced", "json"}, p \in Payloads }

\* How the model call of a request ended, as the service and the network made it
FailureOf(c) ==
  CASE c.kind = "badenvelope" -> "unparsable"
    [] c.kind = "nocontent" -> "empty"
    [] c.kind \in {"nonstring", "text", "badbraces"} -> "unparsable"
    [] OTHER -> "none"

(***************************************************************************)
(* /api/forecast: the response and the helpers of the handlers             *)
(***************************************************************************)
\* The numbers of a response body: demand and cost in tenths of a percent,
\* margin in tenths of a basis point, confidence; has = FALSE when the body
\* carries no forecast fields at all
Numbers(demand, cost, margin, drivers, confidence) ==
  [has |-> TRUE, demand |-> demand, cost |-> cost, margin |-> margin, drivers |-> drivers,
   confidence |-> confidence]
NoNumbers ==
  [has |-> FALSE, demand |-> NoNum, cost |-> NoNum, margin |-> NoNum, drivers |-> <<>>,
   confidence |-> NoConf]

\* meta of a response: source "none" = no source key, error / note = the key
\* is present with a message, months 0 = horizon_months missing or undefined,
\* latency -1 = no latency_ms
Meta(source, error, note, geo, naics, months, latency) ==
  [source |-> source, error |-> error, note |-> note, geo |-> geo, naics |-> naics,
   months |-> months, latency |-> latency]
NoMeta == Meta("none", FALSE, FALSE, Absent, Absent, 0, -1)

\* A response: from is the code path that built the numbers ("synth" the
\* seeded demo, "table" demoResponse, "mock" the fixed report, "model" the
\* model's parsed output, "none" an error body)
Response(status, from, numbers, meta) ==
  [status |-> status, from |-> from, numbers |-> numbers, meta |-> meta]
ErrorResponse(status) == Response(status, "none", NoNumbers, NoMeta)
NoResponse == Response(0, "none", NoNumbers, NoMeta)

\* !x on a body field
Falsy(v) == v = Absent \/ v = <<>>
\* (body.x || d).toString().trim()
TrimOr(v, d) == Trim(IF Falsy(v) THEN d ELSE v)

\* if (!event || !geo || !naics) -> 400; v3.1 tests the trimmed strings
MissingFields(v, b) ==
  IF v = "v31"
    THEN TrimOr(b.event, <<>>) = <<>> \/ TrimOr(b.geo, <<>>) = <<>>
           \/ TrimOr(b.naics, <<>>) = <<>>
    ELSE Falsy(b.event) \/ Falsy(b.geo) \/ Falsy(b.naics)

\* Math.round of a number given in tenths, in tenths
RoundTenths(x) == 10 * ((x + 5) \div 10)
\* num(n, d) / toNumber / toNum: a finite number or the default
NumOr(n, d) == IF n.t = "num" THEN n.v ELSE d
\* clamp01(num(confidence, d)), in thousandths
ClampConf(c, d) == ConfMilli(Max(0, Min(1000, IF c.t = "milli" THEN c.v ELSE d)))

\* canonicalize (forecast.js), canonicalizeGeo / canonicalizeNaics (forecast.ts)
canonicalize(str) == CollapseSpaces(Trim(IF Falsy(str) THEN <<>> ELSE str))
canonicalizeGeo(g) == CollapseSpaces(Trim(IF Falsy(g) THEN <<>> ELSE g))
canonicalizeNaics(n) == ToUpper(Trim(IF Falsy(n) THEN <<>> ELSE n))

IsDigit(c) == c >= 48 /\ c <= 57
\* v3.1: (naicsRaw.match(/^\d{4}/)?.[0] || naicsRaw).trim()
Naics31(b) ==
  LET raw == TrimOr(b.naics, <<>>) IN
  IF Len(raw) >= 4 /\ \A i \in 1..4 : IsDigit(raw[i]) THEN SubSeq(raw, 1, 4) ELSE raw

\* horizon_months of the handler's meta, 0 when the lookup gives undefined
HorizonMonths(v, b) ==
  LET h == IF v = "v31" THEN TrimOr(b.horizon, StrMedium) ELSE Dflt(b.horizon, StrMedium)
      looked == IF h = StrShort THEN 3 ELSE IF h = StrMedium THEN 12
                ELSE IF h = StrLong THEN 24 ELSE 0 IN
  CASE v \in {"demo_ts", "llm_ts"} -> looked
    [] v = "llm_js" -> IF looked = 0 THEN 12 ELSE looked
    [] v = "v31" -> IF h = StrShort THEN 3 ELSE IF h = StrLong THEN 24 ELSE 12
    [] OTHER -> 0

\* geo_canonical and naics_canonical of the handler's meta
GeoCanonical(v, b) ==
  CASE v = "llm_js" -> canonicalize(b.geo)
    [] v \in {"demo_ts", "llm_ts"} -> canonicalizeGeo(b.geo)
    [] v = "v31" -> TrimOr(b.geo, <<>>)
    [] OTHER -> Absent
NaicsCanonical(v, b) ==
  CASE v = "llm_js" -> canonicalize(b.naics)
    [] v \in {"demo_ts", "llm_ts"} -> canonicalizeNaics(b.naics)
    [] v = "v31" -> Naics31(b)
    [] OTHER -> Absent

\* The seeded demo forecast of every request body with event, geo and naics
\* at every time it can arrive, computed once per seed string
SynthTable ==
  [k \in {<<b, SeedString(b, t)>> :
            b \in {x \in Bodies \cup ScenarioBodies : ~MissingFields("llm_js", x)},
            t \in 0..(MaxNowMs + TickMs)}
     |-> SynthFrom(djb2(k[2]), k[1])]

\* The numbers of the seeded demo forecast (margin in tenths of a basis point)
SynthNumbers(b, started) ==
  CHOOSE n \in
    { Numbers(r.demand, r.cost, Num(10 * r.margin.v), r.drivers, r.confidence) :
        r \in {SynthTable[<<b, SeedString(b, started)>>]} } : TRUE

\* demoResponse(payload) of the rich handler: seed % 7 indexes three tables
DemoTable(b) ==
  LET len(x, d) == IF Falsy(x) THEN d ELSE Len(x)
      i == ((len(b.event, 1) + len(b.geo, 1) + len(b.naics, 1)) % 7) + 1
      demand == <<-32, -18, 4, 12, 25, -9, 31>>[i]
      cost == <<10, 6, 2, -4, -11, 8, -2>>[i]
      m_bps == <<-50, -20, 10, 30, 60, -15, 25>>[i] IN
  Numbers(Num(demand), Num(cost), Num(10 * m_bps),
    <<Driver("Input costs shift due to supply & logistics changes.",
             IF cost > 0 THEN "bad" ELSE "good"),
      Driver("Local demand reacts to pricing, income, and policy.",
             IF demand >= 0 THEN "good" ELSE "warn"),
      Driver("Margin sensitivity to pass-through and mix.",
             IF m_bps >= 0 THEN "good" ELSE "warn")>>,
    ConfMilli(600))

\* mockReport (v3.0) and the fallback of v3.1: the same fixed numbers
MockReport ==
  Numbers(Num(-32), Num(21), Num(-1800),
    <<Driver("Lower consumer confidence reduces discretionary spending.", "warn"),
      Driver("Energy costs and logistics disruptions raise input prices.", "bad"),
      Driver("Operational optimization and digital tools offset part of the loss.", "good")>>,
    ConfMilli(840))

Take(seq, n) == SubSeq(seq, 1, Min(n, Len(seq)))
\* v3.1: drivers.map(d => ({text, tone in good/bad/warn or "warn"}))
CoerceTone(d) == Driver(d.text, IF d.tone \in {"good", "bad", "warn"} THEN d.tone ELSE "warn")

\* The body built from the model's parsed object p.  v3.0 spreads it as it is.
ModelNumbers(v, p) ==
  CASE v \in {"llm_js", "llm_ts"} ->
         Numbers(Num(NumOr(p.demand, 0)), Num(NumOr(p.cost, 0)),
                 Num(RoundTenths(NumOr(p.margin, 0))),
                 IF p.hasDrivers THEN Take(p.drivers, 6) ELSE <<>>, ClampConf(p.confidence, 600))
    [] v = "rich" ->
         Numbers(Num(NumOr(p.demand, 0)), Num(NumOr(p.cost, 0)),
                 Num(RoundTenths(NumOr(p.margin, 0))),
                 IF p.hasDrivers THEN Take(p.drivers, 8) ELSE <<>>, ClampConf(p.confidence, 700))
    [] v = "v31" ->
         Numbers(Num(NumOr(p.demand, 0)), Num(NumOr(p.cost, 0)),
                 Num(RoundTenths(NumOr(p.margin, 0))),
                 IF p.hasDrivers
                   THEN Take([i \in 1..Len(p.drivers) |-> CoerceTone(p.drivers[i])], 20)
                   ELSE <<>>,
                 ClampConf(p.confidence, 700))
    [] OTHER -> [has |-> TRUE, demand |-> p.demand, cost |-> p.cost, margin |-> p.margin,
                 drivers |-> p.drivers, confidence |-> p.confidence]

(***************************************************************************)
(* /api/forecast: the Model Client and what each handler answers           *)
(***************************************************************************)
\* setTimeout(() => ac.abort(), ...): 8000 in callOpenRouter, TIMEOUT_MS in
\* the rich handler, timeoutMs in v3.1; callModel of v3.0 sets no timer (0)
TimeoutMs(v) ==
  CASE v \in {"llm_js", "llm_ts"} -> 8000
    [] v = "rich" -> 25000
    [] v = "v31" -> 20000
    [] OTHER -> 0

\* PLAN_DEPTH[plan] of v3.0
PlanDepthHas(plan) == plan \in {"business", "pro", "enterprise"}

\* max_tokens of the model call: fixed in callOpenRouter and the rich
\* handler, PLAN_DEPTH[plan].maxTokens in v3.0, by depth in v3.1 (the plan
\* is "business" when the body has none, and every other name is "brief")
MaxTokens(v, plan) ==
  CASE v \in {"llm_js", "llm_ts"} -> 400
    [] v = "rich" -> 900
    [] v = "v30" -> IF plan = "enterprise" THEN 4000 ELSE IF plan = "pro" THEN 2500 ELSE 1000
    [] v = "v31" -> IF plan = "enterprise" THEN 1800 ELSE IF plan = "pro" THEN 1200 ELSE 700
    [] OTHER -> 0

\* PLAN_DEPTH[plan].narrativeLength of v3.0, the words the prompt asks for
NarrativeLength(plan) ==
  IF plan = "enterprise" THEN 2500 ELSE IF plan = "pro" THEN 1500 ELSE 500

\* The outcome of the Model Client on the service's answer c:
\*   r = "threw"  it throws,  r = "null"  it returns null (no usable output),
\*   r = "value"  it returns the parsed value: val = "object" with c.payload,
\*                "scalar" a number, "null" the value null (v3.0 only)
\* noted: v3.1 records a message in modelError
Outcome(r, val, noted) == [r |-> r, val |-> val, noted |-> noted]

ClientResult(v, c) ==
  LET k == c.kind IN
  CASE v = "llm_js" ->
         IF k \in {"badenvelope", "badbraces"} THEN Outcome("threw", "none", FALSE)
         ELSE IF k \in {"nocontent", "nonstring", "text", "json_null"}
           THEN Outcome("null", "none", FALSE)
         ELSE IF k = "json_scalar" THEN Outcome("value", "scalar", FALSE)
         ELSE Outcome("value", "object", FALSE)
    [] v = "llm_ts" ->
         IF k \in {"badenvelope", "badbraces", "text"} THEN Outcome("threw", "none", FALSE)
         ELSE IF k \in {"nocontent", "nonstring", "json_null"}
           THEN Outcome("null", "none", FALSE)
         ELSE IF k = "json_scalar" THEN Outcome("value", "scalar", FALSE)
         ELSE Outcome("value", "object", FALSE)
    [] v = "rich" ->
         IF k = "badenvelope" THEN Outcome("threw", "none", FALSE)
         ELSE IF k \in {"nocontent", "nonstring", "text", "badbraces", "prose", "json_null"}
           THEN Outcome("null", "none", FALSE)
         ELSE IF k = "json_scalar" THEN Outcome("value", "scalar", FALSE)
         ELSE Outcome("value", "object", FALSE)
    [] v = "v30" ->
         IF k = "json" THEN Outcome("value", "object", FALSE)
         ELSE IF k = "json_scalar" THEN Outcome("value", "scalar", FALSE)
         ELSE IF k = "json_null" THEN Outcome("value", "null", FALSE)
         ELSE Outcome("threw", "none", FALSE)
    [] OTHER ->
         IF k = "badenvelope" THEN Outcome("threw", "none", TRUE)
         ELSE IF k = "json" THEN Outcome("value", "object", FALSE)
         ELSE IF k = "json_scalar" THEN Outcome("value", "scalar", FALSE)
         ELSE IF k = "json_null" THEN Outcome("null", "none", FALSE)
         ELSE Outcome("null", "none", TRUE)

\* meta of the seeded demo answer and of the model answer of forecast.js / .ts
DemoMeta(v, source, b, started, t) ==
  Meta(source, FALSE, FALSE, GeoCanonical(v, b), NaicsCanonical(v, b), HorizonMonths(v, b),
       t - started)
\* meta of the v3.1 answer
Meta31(source, noted, b, started, t) ==
  Meta(source, FALSE, noted, GeoCanonical("v31", b), NaicsCanonical("v31", b),
       HorizonMonths("v31", b), t - started)
\* meta of the rich answer
RichMeta(source, error, started, t) == Meta(source, error, FALSE, Absent, Absent, 0, t - started)

\* No model key is configured.
NoKeyResponse(v, b, syn, started, t) ==
  CASE v \in {"llm_js", "llm_ts"} ->
         Response(200, "synth", syn, DemoMeta(v, "demo", b, started, t))
    [] v = "rich" -> Response(200, "table", DemoTable(b), RichMeta("fallback-demo", FALSE, started, t))
    [] v = "v30" -> Response(200, "mock", MockReport, NoMeta)
    [] OTHER -> Response(200, "mock", MockReport, Meta31("fallback", TRUE, b, started, t))

\* A faulty handler: the error of the model call reaches the outer catch
FailureResponseMutOuter(v, b, syn, started, t) == ErrorResponse(500)
\* The model call threw (network error, abort, HTTP status, bad body): the
\* catch block the error lands in and what is answered from there.  syn is
\* the seeded demo forecast of the body.
FailureResponse(v, b, syn, started, t) ==
  CASE v \in {"llm_js", "llm_ts"} ->
         Response(200, "synth", syn,
                  DemoMeta(v, "fallback-demo", b, started, t))
    [] v = "rich" -> Response(200, "table", DemoTable(b), RichMeta("fallback-demo", TRUE, started, t))
    [] v = "v30" ->
         Response(200, "mock", MockReport, Meta("fallback", TRUE, FALSE, Absent, Absent, 0, -1))
    [] OTHER -> Response(200, "mock", MockReport, Meta31("fallback", TRUE, b, started, t))

\* The Model Client returned null: no usable output.
NullResponse(v, noted, b, syn, started, t) ==
  CASE v \in {"llm_js", "llm_ts"} ->
         Response(200, "synth", syn,
                  DemoMeta(v, "fallback-demo", b, started, t))
    [] v = "rich" -> Response(200, "table", DemoTable(b), RichMeta("fallback-demo", FALSE, started, t))
    [] OTHER -> Response(200, "mock", MockReport, Meta31("fallback", noted, b, started, t))

\* The Model Client returned a value: an object with payload p, or a scalar.
ValueResponse(v, val, p, b, started, t) ==
  LET q == IF val = "object" THEN p ELSE NoPayload IN
  CASE v \in {"llm_js", "llm_ts"} ->
         Response(200, "model", ModelNumbers(v, q), DemoMeta(v, "openrouter", b, started, t))
    [] v = "rich" ->
         Response(200, "model", ModelNumbers(v, q), RichMeta("openrouter", FALSE, started, t))
    [] v = "v30" ->
         Response(200, "model", IF val = "object" THEN ModelNumbers(v, q) ELSE NoNumbers,
                  Meta("EcoForecast-v3.0", FALSE, FALSE, Absent, Absent, 0, -1))
    [] OTHER ->
         IF val = "object"
           THEN Response(200, "model", ModelNumbers(v, q),
                         Meta31("openrouter", FALSE, b, started, t))
           ELSE Response(200, "mock", MockReport, Meta31("openrouter", FALSE, b, started, t))

\* The answer once the Model Client is through with the service's answer c
AfterClient(v, c, b, syn, started, t) ==
  LET o == ClientResult(v, c) IN
  IF o.r = "threw" THEN FailureResponse(v, b, syn, started, t)
  ELSE IF o.r = "null" THEN NullResponse(v, o.noted, b, syn, started, t)
  ELSE ValueResponse(v, o.val, c.payload, b, started, t)

(***************************************************************************)
(* /api/forecast: the handler's steps, the model service and the timer     *)
(***************************************************************************)
FcSlots == 1..NumFcSlots

\* A request slot; each slot serves one request.  pc: "idle", "fetch" (await
\* fetch), "errbody" (await resp.text() of a non-2xx answer), "body" (await
\* resp.json()), "done".
\* timer: "off", "armed" until deadline, "cleared".  calls: model calls issued.
\* tokens: max_tokens of the model call (0 when none was issued).  content:
\* the kind of the service's answer ("none" when there was none), payload the
\* object in it.
\* failure: how the model call ended ("none", "network", "abort", "http",
\* "empty", "unparsable").  client: the Model Client's outcome ("none" when it
\* was not called).
IdleFc ==
  [pc |-> "idle", v |-> "demo_ts", key |-> FALSE, body |-> MkBody(<<>>, <<>>, <<>>, Absent,
   Absent, Absent, "none"), started |-> 0, timer |-> "off", deadline |-> 0, calls |-> 0,
   tokens |-> 0, content |-> "none", payload |-> NoPayload, failure |-> "none",
   client |-> "none", resp |-> NoResponse]

Answered(f, failure, client, resp) ==
  [f EXCEPT !.pc = "done", !.timer = IF f.timer = "armed" THEN "cleared" ELSE f.timer,
     !.failure = failure, !.client = client, !.resp = resp]

\* The handler from the arrival of the request to its first await or answer.
\* json: the Content-Type header includes application/json.  syn: the seeded
\* demo forecast of the body, for the paths that answer with it.
FcStart(s, v, key, m, json, b) ==
  /\ fc[s].pc = "idle"
  /\ \E syn \in {IF MissingFields("llm_js", b) THEN NoNumbers ELSE SynthNumbers(b, now)},
        f \in {[IdleFc EXCEPT !.v = v, !.key = key, !.body = b, !.started = now]} :
     fc' = [fc EXCEPT ![s] =
       IF m # "POST" THEN Answered(f, "none", "none", ErrorResponse(405))
       ELSE IF v = "rich" /\ ~json THEN Answered(f, "none", "none", ErrorResponse(400))
       ELSE IF MissingFields(v, b) THEN Answered(f, "none", "none", ErrorResponse(400))
       ELSE IF v = "demo_ts"
         THEN Answered(f, "none", "none",
                Response(200, "synth", syn, DemoMeta(v, "none", b, now, now)))
       ELSE IF ~key THEN Answered(f, "none", "none", NoKeyResponse(v, b, syn, now, now))
       ELSE IF v = "v30" /\ ~PlanDepthHas(b.plan)
         THEN Answered(f, "none", "none", FailureResponse(v, b, syn, now, now))
       ELSE [f EXCEPT !.pc = "fetch", !.calls = 1, !.tokens = MaxTokens(v, b.plan),
                      !.timer = IF TimeoutMs(v) > 0 THEN "armed" ELSE "off",
                      !.deadline = now + TimeoutMs(v)]]
  /\ UNCHANGED <<ledgerVars, storeVars, now, helperVars, envVars>>

\* A faulty failure path: the first failed model call is issued again
FailsMutRetry(s, failure) ==
  \E f \in {fc[s]} :
    \E syn \in {SynthNumbers(f.body, f.started)} :
      fc' = [fc EXCEPT ![s] =
               IF f.calls < 2
                 THEN [f EXCEPT !.pc = "fetch", !.calls = @ + 1]
                 ELSE Answered(f, failure, "threw",
                        FailureResponse(f.v, f.body, syn, f.started, now))]

\* The model call of the request of slot s threw with the given failure: the
\* handler answers.
Fails(s, failure) ==
  \E f \in {fc[s]} :
    \E syn \in {SynthNumbers(f.body, f.started)} :
      fc' = [fc EXCEPT ![s] = Answered(f, failure, "threw",
               FailureResponse(f.v, f.body, syn, f.started, now))]

\* fetch rejects: the network fails.
FetchFails(s) ==
  /\ fc[s].pc = "fetch"
  /\ Fails(s, "network")
  /\ UNCHANGED <<ledgerVars, storeVars, now, helperVars, envVars>>

\* The timer runs out while fetch is pending: ac.abort() makes fetch reject.
TimerFire(s) ==
  /\ fc[s].pc = "fetch"
  /\ fc[s].timer = "armed"
  /\ now >= fc[s].deadline
  /\ Fails(s, "abort")
  /\ UNCHANGED <<ledgerVars, storeVars, now, helperVars, envVars>>

\* The status line and headers arrive: fetch resolves, clearTimeout, resp.ok.
\* callModel of v3.0 throws on a non-2xx status without reading the body.
Headers(s, ok) ==
  /\ fc[s].pc = "fetch"
  /\ \E g \in {[fc[s] EXCEPT !.timer = IF fc[s].timer = "armed" THEN "cleared" ELSE "off"]} :
       \E syn \in {SynthNumbers(g.body, g.started)} :
         fc' = [fc EXCEPT ![s] =
                  IF ok THEN [g EXCEPT !.pc = "body"]
                  ELSE IF g.v = "v30"
                    THEN Answered(g, "http", "threw",
                           FailureResponse(g.v, g.body, syn, g.started, now))
                  ELSE [g EXCEPT !.pc = "errbody"]]
  /\ UNCHANGED <<ledgerVars, storeVars, now, helperVars, envVars>>

\* resp.text() of the non-2xx answer settles (a rejection is caught to "").
ErrBody(s) ==
  /\ fc[s].pc = "errbody"
  /\ Fails(s, "http")
  /\ UNCHANGED <<ledgerVars, storeVars, now, helperVars, envVars>>

\* resp.json() settles with the service's answer c.
Body(s, c) ==
  /\ fc[s].pc = "body"
  /\ \E f \in {[fc[s] EXCEPT !.content = c.kind, !.payload = c.payload]} :
       \E syn \in {SynthNumbers(f.body, f.started)} :
         fc' = [fc EXCEPT ![s] = Answered(f, FailureOf(c), ClientResult(f.v, c).r,
                  AfterClient(f.v, c, f.body, syn, f.started, now))]
  /\ UNCHANGED <<ledgerVars, storeVars, now, helperVars, envVars>>

\* A request waits for the model service.
Waiting(s) == fc[s].pc \in {"fetch", "errbody", "body"}

\* Time passes, up to the next deadline of an armed timer.
Advance ==
  /\ now < MaxNowMs
  /\ \A s \in FcSlots : fc[s].timer = "armed" => now < fc[s].deadline
  /\ LET ds == {fc[s].deadline : s \in {x \in FcSlots : fc[x].timer = "armed"}}
         step == now + TickMs IN
     now' = IF \E d \in ds : d < step THEN CHOOSE d \in ds : \A e \in ds : d <= e ELSE step
  /\ UNCHANGED <<ledgerVars, storeVars, fc, helperVars, envVars>>

(***************************************************************************)
(* synthDrivers step by step, on texts and generator states of its own     *)
(***************************************************************************)
\* "liblclv"
StrLiblclv == <<108, 105, 98, 108, 99, 108, 118>>
\* "ebawvks"
StrEbawvks == <<101, 98, 97, 119, 118, 107, 115>>
\* "x "
TextNoRule == <<120, 32>>
\* "postwar "
TextPostwar == <<112, 111, 115, 116, 119, 97, 114, 32>>
\* "War flood"
TextTwoRules == StrWar \o Space \o StrFlood
\* "war tariff credit"
TextThreeRules ==
  <<119, 97, 114, 32, 116, 97, 114, 105, 102, 102, 32, 99, 114, 101, 100, 105, 116>>
\* "war tariff credit flood"
TextFourRules == TextThreeRules \o Space \o StrFlood
\* "war tariff credit flood coup fed"
TextSixRules == TextFourRules \o <<32, 99, 111, 117, 112, 32, 102, 101, 100>>

\* The texts synthDrivers is called on
DriverTexts ==
  {<<>>, TextNoRule, TextPostwar, StrTariff \o Space, TextTwoRules, TextThreeRules,
   TextFourRules, TextSixRules}

\* Request bodies whose seeds start the generators of the calls
DriverBodies ==
  {b \in Bodies : ~MissingFields("llm_js", b)}
    \cup {MkBody(e, StrY, StrZ, Absent, Absent, Absent, "none") : e \in {StrLiblclv, StrEbawvks}}

\* The generator when the handler calls synthDrivers: rand() was called for
\* demand_pct, cost_pct and margin_bps
DrawnThrice(seed) == MulberryNext(MulberryNext(MulberryNext(seed)))
StreamStates == {DrawnThrice(djb2(SeedString(b, 0))) : b \in DriverBodies}

\* A call of synthDrivers: pc "idle" (no call), "call" (entered), "loop" (at the
\* while), "done" (returned out); a is the generator's state, draws the
\* numerators r() returned so far
IdleSd == [pc |-> "idle", text |-> <<>>, a |-> <<0, 0>>, out |-> <<>>, draws |-> <<>>]

\* const t = (text || '').toLowerCase(); the six rules
SdRules ==
  /\ sdc.pc = "call"
  /\ sdc' = [sdc EXCEPT !.pc = "loop", !.out = RuleDrivers(ToLower(OrElse(sdc.text, <<>>)))]
  /\ UNCHANGED <<ledgerVars, storeVars, fcVars, cz, envVars>>

\* One turn of while (drivers.length < 3)
SdPad ==
  /\ sdc.pc = "loop"
  /\ PadMore(sdc.out)
  /\ \E p \in {PadOnce(sdc.out, sdc.a)} :
       sdc' = [sdc EXCEPT !.out = p.drivers, !.a = p.a, !.draws = @ \o p.draws]
  /\ UNCHANGED <<ledgerVars, storeVars, fcVars, cz, envVars>>

\* return drivers.slice(0, 6)
SdReturn ==
  /\ sdc.pc = "loop"
  /\ ~PadMore(sdc.out)
  /\ sdc' = [sdc EXCEPT !.pc = "done", !.out = SubSeq(sdc.out, 1, Min(6, Len(sdc.out)))]
  /\ UNCHANGED <<ledgerVars, storeVars, fcVars, cz, envVars>>

(***************************************************************************)
(* The canonicalizers, applied to a value and to their own result          *)
(***************************************************************************)
\* The code units the values are made of: space, tab, "a", "Z"
CanonChars == {32, 9, 97, 90}
CanonInputs == {Absent} \cup UNION {[1..n -> CanonChars] : n \in 0..MaxCanonLen}
Canonicalizers == {"canonicalizeGeo", "canonicalizeNaics", "canonicalize"}

Canonical(fn, x) ==
  CASE fn = "canonicalizeGeo" -> canonicalizeGeo(x)
    [] fn = "canonicalizeNaics" -> canonicalizeNaics(x)
    [] OTHER -> canonicalize(x)

\* pc "idle" (nothing to do), "in" (x is given), "once" (once = fn(x)),
\* "twice" (twice = fn(once))
IdleCz == [pc |-> "idle", fn |-> "canonicalize", x |-> <<>>, once |-> <<>>, twice |-> <<>>]

CzOnce ==
  /\ cz.pc = "in"
  /\ cz' = [cz EXCEPT !.pc = "once", !.once = Canonical(cz.fn, cz.x)]
  /\ UNCHANGED <<ledgerVars, storeVars, fcVars, sdc, envVars>>

CzTwice ==
  /\ cz.pc = "once"
  /\ cz' = [cz EXCEPT !.pc = "twice", !.twice = Canonical(cz.fn, cz.once)]
  /\ UNCHANGED <<ledgerVars, storeVars, fcVars, sdc, envVars>>

(***************************************************************************)
(* Initial state and specifications                                        *)
(***************************************************************************)
\* The store is empty and no request has arrived.
InitHandlers ==
  /\ clock = 1
  /\ usage = [k \in Keys |-> NoDoc]
  /\ inc = [s \in IncSlots |-> IdleInc]
  /\ issued = [k \in Keys |-> 0]
  /\ admitted = [k \in Keys |-> <<>>]
  /\ rejected = [k \in Keys |-> 0]
  /\ billing = [u \in Users |-> NoBilling]
  /\ forecasts = [k \in Keys |-> 0]
  /\ history = [u \in Users |-> 0]
  /\ hist = [s \in HistSlots |-> IdleHist]
  /\ scenarios = [u \in Users |-> 0]
  /\ now = 0
  /\ fc = [s \in FcSlots |-> IdleFc]

Init ==
  /\ InitHandlers
  /\ sdc = IdleSd
  /\ cz = IdleCz
  /\ adminUid = TRUE

\* The same in a deployment with or without ADMIN_UID
InitStore ==
  /\ InitHandlers
  /\ sdc = IdleSd
  /\ cz = IdleCz
  /\ adminUid \in BOOLEAN

\* The Quota Ledger under concurrent increment requests
NextLedger ==
  \/ \E s \in IncSlots, m \in Methods, t \in Tokens : IncStart(s, m, t)
  \/ \E s \in IncSlots : IncTxGet(s)
  \/ \E s \in IncSlots : IncTxCommit(s)
  \/ Tick

SpecLedger == Init /\ [][NextLedger]_vars

\* The Quota Ledger on a store whose transactions may fail
NextLedgerFail ==
  \/ NextLedger
  \/ \E s \in IncSlots : IncTxFail(s)

SpecLedgerFail == Init /\ [][NextLedgerFail]_vars

\* The handlers that share the store: increment, read, plan and history
StoreIncSlots == {1}
StoreHistSlots == {1}
\* api/scenario.js takes the action from the query, the one-file handlers
\* have one action each
ScenarioRequests ==
  {r \in ScenarioApis \X ScenarioActions :
     r[1] = "scenario_js"
       \/ r \in {<<"save_js", "save">>, <<"get_js", "get">>, <<"list_js", "list">>}}
NextStore ==
  \/ \E s \in StoreIncSlots, m \in Methods, t \in Tokens : IncStart(s, m, t)
  \/ \E s \in StoreIncSlots : IncTxGet(s)
  \/ \E s \in StoreIncSlots : IncTxCommit(s)
  \/ \E m \in Methods, t \in Tokens : UsageGet(m, t)
  \/ \E api \in PlanApis, m \in Methods, hdr \in AdminHeaders,
        uid \in Users \cup {0}, plan \in Plans \cup {""} :
          PlanSet(api, m, adminUid, hdr, uid, plan)
  \/ \E api \in PlanApis, m \in Methods, t \in Tokens : PlanGet(api, m, t)
  \/ \E s \in StoreHistSlots, api \in HistApis, m \in Methods, t \in Tokens, json \in BOOLEAN,
        body \in BOOLEAN : HistStart(s, api, m, t, json, body)
  \/ \E s \in StoreHistSlots : HistQuery(s)
  \/ \E s \in StoreHistSlots : HistAdd(s)
  \/ \E s \in StoreHistSlots : HistAddJs(s)
  \/ \E m \in Methods, t \in Tokens : HistList(m, t)
  \/ \E r \in ScenarioRequests, m \in Methods, t \in Tokens, given \in BOOLEAN :
        Scenario(r[1], r[2], m, t, given)

SpecStore == InitStore /\ [][NextStore]_vars

\* Concurrent history requests of users who have saved forecasts this month:
\* as many as a run of earlier saves through api/history/save.ts leaves
SavedBefore == (HIST_QUOTA - 2)..HIST_QUOTA
InitHistory ==
  /\ clock = 1
  /\ usage = [k \in Keys |-> NoDoc]
  /\ inc = [s \in IncSlots |-> IdleInc]
  /\ issued = [k \in Keys |-> 0]
  /\ admitted = [k \in Keys |-> <<>>]
  /\ rejected = [k \in Keys |-> 0]
  /\ billing = [u \in Users |-> NoBilling]
  /\ forecasts \in [Keys -> SavedBefore \cup {0}]
  /\ \A k \in Keys : forecasts[k] # 0 <=> k[2] = 1
  /\ history = [u \in Users |-> 0]
  /\ hist = [s \in HistSlots |-> IdleHist]
  /\ scenarios = [u \in Users |-> 0]
  /\ now = 0
  /\ fc = [s \in FcSlots |-> IdleFc]
  /\ sdc = IdleSd
  /\ cz = IdleCz
  /\ adminUid = TRUE

NextHistory ==
  \/ \E s \in HistSlots, api \in HistApis, m \in Methods, t \in Tokens, json \in BOOLEAN,
        body \in BOOLEAN : HistStart(s, api, m, t, json, body)
  \/ \E s \in HistSlots : HistQuery(s)
  \/ \E s \in HistSlots : HistAdd(s)
  \/ \E s \in HistSlots : HistAddJs(s)
  \/ \E m \in Methods, t \in Tokens : HistList(m, t)
  \/ Tick

SpecHistory == InitHistory /\ [][NextHistory]_vars

\* One forecast request at a time, every version of the handler, with the
\* model service and the timer
OneFcSlot == {1}
NextForecast ==
  \/ \E s \in OneFcSlot, v \in Variants, key \in BOOLEAN, m \in Methods, b \in Bodies :
        \E json \in (IF v = "rich" THEN BOOLEAN ELSE {TRUE}) : FcStart(s, v, key, m, json, b)
  \/ \E s \in OneFcSlot : FetchFails(s)
  \/ \E s \in OneFcSlot : TimerFire(s)
  \/ \E s \in OneFcSlot, ok \in BOOLEAN : Headers(s, ok)
  \/ \E s \in OneFcSlot : ErrBody(s)
  \/ \E s \in OneFcSlot, c \in Contents : Body(s, c)
  \/ Advance

SpecForecast == Init /\ [][NextForecast]_vars

\* Runs of the seeded demo handlers (no model key) at different times
NextSynth ==
  \/ \E s \in FcSlots, v \in {"demo_ts", "llm_js"}, b \in Bodies :
        FcStart(s, v, FALSE, "POST", TRUE, b)
  \/ Advance

SpecSynth == Init /\ [][NextSynth]_vars

\* A forecast request together with the Quota Ledger: the handlers of
\* api/forecast.js (key-gated and v3.1) next to api/usage/incr.js
QuotaVariants == {"llm_js", "v31"}
NextQuota ==
  \/ \E s \in StoreIncSlots, m \in Methods, t \in Tokens : IncStart(s, m, t)
  \/ \E s \in StoreIncSlots : IncTxGet(s)
  \/ \E s \in StoreIncSlots : IncTxCommit(s)
  \/ \E s \in OneFcSlot, v \in QuotaVariants, key \in BOOLEAN, b \in Bodies :
        FcStart(s, v, key, "POST", TRUE, b)
  \/ \E s \in OneFcSlot : FetchFails(s)
  \/ \E s \in OneFcSlot, ok \in BOOLEAN : Headers(s, ok)
  \/ \E s \in OneFcSlot : ErrBody(s)
  \/ \E s \in OneFcSlot, c \in Contents : Body(s, c)

SpecQuota == Init /\ [][NextQuota]_vars

\* Runs of the seeded demo handlers on requests that differ in scenario only
NextScenario ==
  \/ \E s \in FcSlots, v \in {"demo_ts", "llm_js"}, b \in ScenarioBodies :
        FcStart(s, v, FALSE, "POST", TRUE, b)
  \/ Advance

SpecScenario == Init /\ [][NextScenario]_vars

\* Calls of synthDrivers on every text with every generator state
InitDrivers ==
  /\ InitHandlers
  /\ sdc \in {[IdleSd EXCEPT !.pc = "call", !.text = t, !.a = a] :
               t \in DriverTexts, a \in StreamStates}
  /\ cz = IdleCz
  /\ adminUid = TRUE

NextDrivers == SdRules \/ SdPad \/ SdReturn

SpecDrivers == InitDrivers /\ [][NextDrivers]_vars

\* Every canonicalizer on every value of the bounded alphabet
InitCanon ==
  /\ InitHandlers
  /\ sdc = IdleSd
  /\ cz \in {[IdleCz EXCEPT !.pc = "in", !.fn = fn, !.x = x] :
               fn \in Canonicalizers, x \in CanonInputs}
  /\ adminUid = TRUE

NextCanon == CzOnce \/ CzTwice

SpecCanon == InitCanon /\ [][NextCanon]_vars

(***************************************************************************)
(* The Quota Ledger                                                        *)
(***************************************************************************)
\* No increment request on counter k is inside its transaction.
Settled(k) == \A s \in IncSlots : inc[s].pc \in {"tx", "commit"} => IncKey(s) # k

C2_CounterWithinCap ==
  \A k \in Keys :
    usage[k].exists => usage[k].cap > 0 /\ usage[k].count >= 0 /\ usage[k].count <= usage[k].cap

\* A counter is full while a plan document and a saved forecast exist.
C2_Witness ==
  \E k \in Keys :
    /\ usage[k].exists
    /\ usage[k].count = usage[k].cap
    /\ billing[k[1]] # NoBilling
    /\ forecasts[k] > 0

\* C3: an increment that would take the count past the cap is answered 402
\* with the current count and the cap; it is not answered 200 or 500.
C3_QuotaExceeded402 ==
  \A s \in IncSlots :
    inc[s].pc = "done" /\ inc[s].uid # 0 =>
      IF QuotaExceeded(inc[s].snap)
        THEN /\ inc[s].status = 402
             /\ inc[s].count = PrevCount(inc[s].snap)
             /\ inc[s].cap = PrevCap(inc[s].snap)
        ELSE inc[s].status = 200

\* A request found its counter at the cap and was answered.
C3_Witness ==
  \E s \in IncSlots :
    /\ inc[s].pc = "done"
    /\ inc[s].uid # 0
    /\ QuotaExceeded(inc[s].snap)
    /\ inc[s].status = 402
    /\ inc[s].count = DEFAULT_CAP

(***************************************************************************)
(* The forecast handlers                                                   *)
(***************************************************************************)
\* The request of slot s was answered.
Done(s) == fc[s].pc = "done"
\* The model call of the request failed: the ways the call can fail
ModelFailures == {"network", "abort", "http", "empty", "unparsable"}

\* C4: a forecast request issues a model call only after the Quota Ledger
\* admitted an increment: whenever a model call has been issued, some usage
\* counter has been incremented.
C4_QuotaBeforeModel ==
  \A s \in OneFcSlot : fc[s].calls > 0 => \E k \in Keys : usage[k].exists /\ usage[k].count > 0

\* C5: a request with event, geo and naics whose model call failed (HTTP
\* status, abort on timeout, network error, empty or unparsable content) is
\* answered 200 with a forecast body.
C5_FailureAnswered200 ==
  \A s \in OneFcSlot :
    Done(s) /\ fc[s].calls > 0 /\ fc[s].failure \in ModelFailures =>
      fc[s].resp.status = 200 /\ fc[s].resp.numbers.has

\* The timer aborted a model call and the request was answered with a forecast.
C5_Witness ==
  \E s \in OneFcSlot :
    /\ Done(s)
    /\ fc[s].calls > 0
    /\ fc[s].failure = "abort"
    /\ fc[s].resp.status = 200
    /\ fc[s].resp.numbers.has

\* C6: a response built by the fallback path because the model call failed
\* (HTTP error, timeout, unparsable output) has meta.error.
C6_FallbackRecordsError ==
  \A s \in OneFcSlot :
    Done(s) /\ fc[s].calls > 0 /\ fc[s].failure \in {"http", "abort", "unparsable"}
      /\ fc[s].resp.from # "model" => fc[s].resp.meta.error

\* C7: a model call of a handler that sets a timeout is not in flight any
\* more once the timeout has elapsed since the request arrived, whether the
\* service sent nothing or only the headers.
C7_CancelledAtTimeout ==
  \A s \in OneFcSlot :
    Waiting(s) /\ TimeoutMs(fc[s].v) > 0 => now - fc[s].started <= TimeoutMs(fc[s].v)

\* C8: when the Model Client returned null, the response has a source among
\* demo, fallback-demo and openrouter_fallback and its numbers, drivers and
\* confidence are those of the seeded demo forecast of the same request.
C8_NullClientIsSynth ==
  \A s \in OneFcSlot :
    Done(s) /\ fc[s].client = "null" =>
      /\ fc[s].resp.meta.source \in {"demo", "fallback-demo", "openrouter_fallback"}
      /\ fc[s].resp.numbers = SynthNumbers(fc[s].body, fc[s].started)

\* C9: in every forecast response that has meta.source, the source is
\* "openrouter" exactly when the numbers are the model's parsed output, "demo"
\* exactly when they are not and no key is configured, "fallback-demo" exactly
\* when they are not and a key is configured.
C9_SourceTellsPath ==
  \A s \in OneFcSlot :
    Done(s) /\ fc[s].resp.status = 200 /\ fc[s].resp.meta.source # "none" =>
      LET src == fc[s].resp.meta.source
          model == fc[s].resp.from = "model" IN
      /\ (src = "openrouter") <=> model
      /\ (src = "demo") <=> (~model /\ ~fc[s].key)
      /\ (src = "fallback-demo") <=> (~model /\ fc[s].key)

SdStepsLeft ==
  CASE sdc.pc = "call" -> 5
    [] sdc.pc = "loop" -> 1 + Max(0, 3 - Len(sdc.out))
    [] OTHER -> 0

\* C11: on every text, the empty string included, and every generator state,
\* the call of synthDrivers terminates (every step leaves it fewer steps),
\* and the list it returns has at least 3 and at most 6 drivers.
C11_DriversThreeToSix ==
  /\ [][SdStepsLeft' < SdStepsLeft]_vars
  /\ [](sdc.pc = "done" => Len(sdc.out) >= 3 /\ Len(sdc.out) <= 6)

\* The call on the empty string returned after three turns of the loop.
C11_Witness ==
  /\ sdc.pc = "done"
  /\ sdc.text = <<>>
  /\ Len(sdc.draws) = 6
  /\ Len(sdc.out) = 3

\* C13: every value the generator returns is at least 0 and below 1, so the
\* pool index floor(draw * 5) is in 0..4 and the tone index floor(draw * 3)
\* in 0..2.
C13_DrawBelowOne ==
  \A i \in 1..Len(sdc.draws) :
    /\ ~MLeU(1, 1, sdc.draws[i])
    /\ FloorTimes(sdc.draws[i], 5) \in 0..4
    /\ FloorTimes(sdc.draws[i], 3) \in 0..2

\* sev and base, both in tenths: sev is 1.8 times base up to the rounding of
\* each to one decimal
ScaledWithinRounding(sev, base) == 10 * sev - 18 * base \in -14..14

\* C14: of two requests answered by the seeded demo forecast that are the same
\* except for scenario "Severe" in one and "Base" in the other, the Severe
\* one's demand_pct and cost_pct are 1.8 times the Base one's, within the
\* rounding to one decimal.
C14_SevereScalesBase ==
  \A s1 \in FcSlots, s2 \in FcSlots :
    /\ Done(s1) /\ Done(s2) /\ fc[s1].v = fc[s2].v
    /\ fc[s1].resp.from = "synth" /\ fc[s2].resp.from = "synth"
    /\ fc[s2].body.scenario = StrBase
    /\ fc[s1].body = [fc[s2].body EXCEPT !.scenario = StrSevereCap]
    => /\ ScaledWithinRounding(fc[s1].resp.numbers.demand.v, fc[s2].resp.numbers.demand.v)
       /\ ScaledWithinRounding(fc[s1].resp.numbers.cost.v, fc[s2].resp.numbers.cost.v)

(***************************************************************************)
(* Canonicalization                                                        *)
(***************************************************************************)
\* C15: canonicalization is idempotent: for every value x, the geo
\* canonicalizer applied to its own result gives that result again, and so
\* does the naics canonicalizer (and canonicalize of api/forecast.js).
C15_CanonicalIdempotent == cz.pc = "twice" => cz.twice = cz.once

\* The geo canonicalizer changed a value with white space at both ends and
\* in the middle, and was applied to the result.
C15_Witness ==
  /\ cz.pc = "twice"
  /\ cz.fn = "canonicalizeGeo"
  /\ cz.x = <<32, 97, 9, 32>>
  /\ cz.once = <<97>>
  /\ cz.twice = <<97>>

(***************************************************************************)
(* The handlers: drivers, validation, horizon, plan, Model Client, stages  *)
(***************************************************************************)
\* C12: every forecast answered 200, its drivers synthesized or taken from
\* the model's output, has at least 3 and at most 6 drivers.
C12_DriversClamped ==
  \A s \in OneFcSlot :
    Done(s) /\ fc[s].resp.status = 200 =>
      Len(fc[s].resp.numbers.drivers) >= 3 /\ Len(fc[s].resp.numbers.drivers) <= 6

\* The request of slot s was refused for its method (or, by the rich handler,
\* for its content type) before its fields were looked at
RefusedUnread(s) ==
  Done(s) /\ (fc[s].resp.status = 405 \/ (fc[s].v = "rich" /\ fc[s].resp.status = 400))

\* C16: a request whose event, geo or naics is missing or empty after
\* trimming is answered 400 at once: no model call, no seeded forecast, no
\* fallback forecast.
C16_BlankFieldRejected ==
  \A s \in OneFcSlot :
    fc[s].pc # "idle" /\ MissingFields("v31", fc[s].body) /\ ~RefusedUnread(s) =>
      /\ Done(s)
      /\ fc[s].resp.status = 400
      /\ fc[s].calls = 0
      /\ ~fc[s].resp.numbers.has

\* The handlers whose meta has horizon_months
MonthsVariants == {"demo_ts", "llm_js", "llm_ts", "v31"}

\* C17: the horizon_months of a forecast answered 200 is 3 for horizon
\* "short", 24 for "long" and 12 for "medium", for no horizon and for every
\* other value; it is never missing.
C17_HorizonMonthsDefault ==
  \A s \in OneFcSlot :
    Done(s) /\ fc[s].resp.status = 200 /\ fc[s].v \in MonthsVariants =>
      fc[s].resp.meta.months =
        (IF fc[s].body.horizon = StrShort THEN 3
         ELSE IF fc[s].body.horizon = StrLong THEN 24 ELSE 12)

\* The handlers that choose the token budget by plan
PlanVariants == {"v30", "v31"}

\* C18: a request with a model key whose plan is missing or not one of
\* business, pro, enterprise has its model call issued with the business
\* budget, and the plan alone brings no fallback answer.
C18_UnknownPlanIsBusiness ==
  \A s \in OneFcSlot :
    /\ fc[s].pc # "idle"
    /\ fc[s].v \in PlanVariants
    /\ fc[s].key
    /\ ~PlanDepthHas(fc[s].body.plan)
    /\ ~(Done(s) /\ fc[s].resp.status \in {400, 405})
    => /\ fc[s].calls = 1
       /\ fc[s].tokens = MaxTokens(fc[s].v, "business")

\* C19: when the service answers 2xx with text that parses neither as JSON
\* nor from its brace-delimited part, the Model Client returns null and does
\* not throw.
C19_UnparsableGivesNull ==
  \A s \in OneFcSlot :
    Done(s) /\ fc[s].content \in {"text", "badbraces"} => fc[s].client = "null"

\* C20: a request goes through QUOTA_CHECK, STAGE1, STAGE2, MERGE, DONE in
\* that order: an answer built from the model's output (MERGE, DONE) comes
\* after two model calls, stage 1 and stage 2.
C20_StagesInOrder ==
  \A s \in OneFcSlot :
    Done(s) /\ fc[s].v = "v31" /\ fc[s].resp.from = "model" => fc[s].calls >= 2

\* The narrative of the answer the request got from the service is shorter
\* than 80% of the words its plan asks for
UnderLength(s) == 10 * fc[s].payload.words < 8 * NarrativeLength(fc[s].body.plan)

\* C21: a request whose narrative came back under 80% of the plan's target
\* is retried exactly once with a second model call, and is answered with
\* the fallback when the second narrative is under-length too; no request
\* makes more than two calls.
C21_UnderLengthRetriedOnce ==
  \A s \in OneFcSlot :
    /\ fc[s].calls <= 2
    /\ Done(s) /\ fc[s].v = "v30" /\ fc[s].client = "value" /\ UnderLength(s) =>
         fc[s].calls = 2 /\ fc[s].resp.from # "model"

(***************************************************************************)
(* The store: who writes the usage counters, absent counters, failures     *)
(***************************************************************************)
\* C22: only the increment's transaction changes a usage counter: a step of
\* any handler that changes some counter is the commit of an increment, and
\* it changes the counter of that request only.
C22_OnlyIncrementWrites ==
  [][\A k \in Keys :
       usage'[k] # usage[k] =>
         \E s \in IncSlots : IncTxCommit(s) /\ IncKey(s) = k /\ inc'[s].status = 200]_vars

\* A counter was incremented, and the plan, history and scenario handlers
\* have written their documents.
C22_Witness ==
  \E u \in Users :
    /\ usage[<<u, 1>>].exists /\ usage[<<u, 1>>].count = 1
    /\ billing[u].exists
    /\ scenarios[u] > 0
    /\ \E k \in Keys : k[1] = u /\ forecasts[k] > 0
    /\ history[u] > 0

\* C23: a counter absent from storage behaves as {count: 0, cap:
\* DEFAULT_CAP}: the read answers exactly that, an increment that finds no
\* counter is admitted with count 1 and cap DEFAULT_CAP, and a counter comes
\* into being only by such a commit, as {count: 1, cap: DEFAULT_CAP}.
C23_AbsentCounterDefaults ==
  /\ [](\A t \in Users :
          ~usage[<<t, clock>>].exists =>
            UsageGetReply("GET", t) = Reply(200, 0, DEFAULT_CAP, ""))
  /\ [](\A s \in IncSlots :
          inc[s].pc = "done" /\ inc[s].uid # 0 /\ ~inc[s].snap.exists =>
            inc[s].status = 200 /\ inc[s].count = 1 /\ inc[s].cap = DEFAULT_CAP)
  /\ [][\A k \in Keys :
          ~usage[k].exists /\ usage'[k].exists =>
            /\ usage'[k].count = 1 /\ usage'[k].cap = DEFAULT_CAP
            /\ \E s \in IncSlots : IncTxCommit(s) /\ IncKey(s) = k]_vars

\* The first increment of a counter was admitted with count 1 while the
\* user's counter of the next month is absent.
C23_Witness ==
  \E s \in IncSlots :
    /\ inc[s].pc = "done" /\ inc[s].status = 200 /\ ~inc[s].snap.exists
    /\ inc[s].count = 1
    /\ usage[IncKey(s)] = [exists |-> TRUE, count |-> 1, cap |-> DEFAULT_CAP, updatedAt |-> 1]
    /\ ~usage[<<inc[s].uid, MaxMonth>>].exists

\* C24: an increment answers 200 {count, cap} only in the step that commits
\* the write of that count and cap; a transaction that fails for a reason
\* other than the cap is answered 500, never 200 and never 402, and leaves
\* every counter as it was; 402 is answered only when the counter is at its cap.
C24_SuccessOnlyOnCommit ==
  [][\A s \in IncSlots :
       /\ inc[s].pc \in {"tx", "commit"} /\ inc'[s].pc = "done" =>
            \/ /\ inc'[s].status = 200
               /\ IncTxCommit(s)
               /\ usage'[IncKey(s)] # usage[IncKey(s)]
               /\ usage'[IncKey(s)].count = inc'[s].count
               /\ usage'[IncKey(s)].cap = inc'[s].cap
            \/ /\ inc'[s].status = 402
               /\ usage[IncKey(s)].exists
               /\ usage[IncKey(s)].count >= usage[IncKey(s)].cap
               /\ usage' = usage
            \/ /\ inc'[s].status = 500
               /\ usage' = usage
       /\ IncTxFail(s) => inc'[s].status = 500 /\ usage' = usage]_vars

\* A request whose transaction failed was answered 500 after another request
\* had raised the same counter to 1, and the counter is still at 1.
C24_Witness ==
  \E s, r \in IncSlots :
    /\ inc[s].pc = "done" /\ inc[s].status = 500 /\ inc[s].uid # 0
    /\ inc[r].pc = "done" /\ inc[r].status = 200 /\ IncKey(r) = IncKey(s)
    /\ usage[IncKey(s)].exists /\ usage[IncKey(s)].count = 1

\* The numbers of a response body are finite, margin_bps is an integer and
\* confidence lies in [0, 1] (0.425 + u / (4 * 4294967295) of a draw u does)
FiniteNumbers(n) ==
  /\ n.has
  /\ n.demand.t = "num" /\ n.cost.t = "num"
  /\ n.margin.t = "num" /\ n.margin.v % 10 = 0
  /\ \/ n.confidence.t = "milli" /\ n.confidence.v >= 0 /\ n.confidence.v <= 1000
     \/ n.confidence.t = "draw"

\* C25: every 200 forecast response carries finite demand_pct, cost_pct,
\* margin_bps and confidence, margin_bps an integer and confidence in [0, 1],
\* and a shift the model left out is reported as 0.
C25_NumbersFinite ==
  \A s \in OneFcSlot :
    Done(s) /\ fc[s].resp.status = 200 =>
      /\ FiniteNumbers(fc[s].resp.numbers)
      /\ fc[s].resp.from = "model" /\ fc[s].payload.demand = NoNum =>
           fc[s].resp.numbers.demand = Num(0)

\* The same for the handlers other than v3.0
NumbersFiniteExceptV30 ==
  \A s \in OneFcSlot :
    Done(s) /\ fc[s].resp.status = 200 /\ fc[s].v # "v30" =>
      /\ FiniteNumbers(fc[s].resp.numbers)
      /\ fc[s].resp.from = "model" /\ fc[s].payload.demand = NoNum =>
           fc[s].resp.numbers.demand = Num(0)

\* C26: whatever the interleaving of a user's concurrent history saves, the
\* user has at most 10 saved forecasts with a timestamp in the current month,
\* and no save adds a document when 10 of the month exist already.
C26_HistoryWithinQuota ==
  /\ [](\A u \in Users : UsedSince(u, clock) <= HIST_QUOTA)
  /\ [][\A s \in HistSlots :
          HistAdd(s) => UsedSince(hist[s].uid, clock) < HIST_QUOTA]_vars

\* Two requests to api/history/save.ts of one user who had 9 documents, both
\* answered 200.
HistoryRace ==
  \E u \in Users :
    /\ UsedSince(u, clock) = HIST_QUOTA + 1
    /\ \A s \in HistSlots : hist[s].pc = "done" /\ hist[s].status = 200 /\ hist[s].uid = u

\* C27: the step in which an increment is rejected with 402 leaves every
\* usage counter as it was (existence, count, cap and updatedAt), so the
\* rejected request neither changes nor creates a counter document.
C27_RejectionWritesNothing ==
  [][\A s \in IncSlots :
       inc[s].pc = "tx" /\ inc'[s].pc = "done" /\ inc'[s].status = 402 =>
         usage' = usage]_vars

\* An increment was rejected at the cap and the counter is as the last
\* admitted increment left it: count = cap = DEFAULT_CAP, written DEFAULT_CAP times.
C27_Witness ==
  \E s \in IncSlots :
    /\ inc[s].pc = "done" /\ inc[s].status = 402 /\ inc[s].count = DEFAULT_CAP
    /\ usage[IncKey(s)] = [exists |-> TRUE, count |-> DEFAULT_CAP, cap |-> DEFAULT_CAP,
                            updatedAt |-> DEFAULT_CAP]

\* C28: the cap of a usage counter is DEFAULT_CAP from its creation on: every
\* increment answers with that cap, no step changes the cap of an existing
\* counter, and a step that changes a billing document (a plan-set, whose
\* cap may be 999999) changes no usage counter.
C28_CapNeverChanges ==
  /\ [](\A k \in Keys : usage[k].exists => usage[k].cap = DEFAULT_CAP)
  /\ [](\A s \in IncSlots :
          inc[s].pc = "done" /\ inc[s].status \in {200, 402} => inc[s].cap = DEFAULT_CAP)
  /\ [][\A k \in Keys :
          usage[k].exists => usage'[k].exists /\ usage'[k].cap = usage[k].cap]_vars
  /\ [][billing' # billing => usage' = usage]_vars

\* The user's plan was set to one with billing cap 999999, and an increment
\* of that user was rejected at count = DEFAULT_CAP.
C28_Witness ==
  \E s \in IncSlots :
    /\ inc[s].pc = "done" /\ inc[s].status = 402 /\ inc[s].cap = DEFAULT_CAP
    /\ billing[inc[s].uid].exists /\ billing[inc[s].uid].cap = 999999
    /\ usage[IncKey(s)].count = DEFAULT_CAP /\ usage[IncKey(s)].cap = DEFAULT_CAP

\* C30: a step changes a billing document only if ADMIN_UID is configured
\* and the step is a plan-set request whose x-admin-uid header is that uid;
\* without ADMIN_UID no step changes a billing document.
C30_AdminOnly ==
  [][billing' # billing =>
       /\ adminUid
       /\ \E api \in PlanApis, m \in Methods, uid \in Users, plan \in Plans :
            PlanSet(api, m, TRUE, "admin", uid, plan)]_vars

\* The same for action=set of api/plan.js alone, which writes the cap
PlanJsAdminOnly ==
  [][\A u \in Users :
       billing'[u] # billing[u] /\ billing'[u].cap # 0 =>
         /\ adminUid
         /\ \E m \in Methods, plan \in Plans : PlanSet("plan_js", m, TRUE, "admin", u, plan)]_vars

\* C29: a forecast request issues at most one model call, and none when
\* event, geo or naics is missing or when no model key is configured.
C29_AtMostOneCall ==
  \A s \in OneFcSlot :
    /\ fc[s].calls <= 1
    /\ fc[s].pc # "idle"
         /\ (Falsy(fc[s].body.event) \/ Falsy(fc[s].body.geo) \/ Falsy(fc[s].body.naics)
               \/ ~fc[s].key) =>
           fc[s].calls = 0 /\ fc[s].content = "none"

\* The v3.1 handler answered from the model's output after one call.
C29_Witness ==
  \E s \in OneFcSlot :
    /\ Done(s) /\ fc[s].v = "v31" /\ fc[s].key /\ fc[s].calls = 1
    /\ fc[s].resp.status = 200 /\ fc[s].resp.from = "model"

\* A request without a key or without a required field was answered
\* without a model call.
NoCallAnswered ==
  \E s \in OneFcSlot :
    Done(s) /\ fc[s].calls = 0 /\ fc[s].v = "v31" /\ ~fc[s].key /\ fc[s].resp.status = 200

====
